---- MODULE Spec2Model ----
(***************************************************************************)
(* A model of biotech-youtube.py: the link canonicalisation                *)
(* (_shorten_link), the link-graph builder (GraphCreator) with its layout  *)
(* engine and edge formatting, the render driver (_save_graph_to_file),    *)
(* and the run of the whole script in a folder: the list of suspect users, *)
(* the parsing and anonymization of the saved pages, the cache file,       *)
(* get_links_and_comments and the text summaries.                          *)
(*                                                                         *)
(* Text is modelled by TLA+ strings handled character by character         *)
(* (Len, SubSeq, \o).  The links and labels the model feeds to the graph   *)
(* builder are ASCII, without white space, brackets or control characters. *)
(***************************************************************************)
EXTENDS Integers, Sequences, FiniteSets, TLC

(***************************************************************************)
(* Strings                                                                 *)
(***************************************************************************)

\* s[i] as a one-character string
CharAt(s, i) == SubSeq(s, i, i)

\* Python slice s[i:] (1-based i)
Drop(s, i) == SubSeq(s, i, Len(s))

\* str.startswith at position i (1-based)
StartsWithAt(s, i, p) == i + Len(p) - 1 <= Len(s) /\ SubSeq(s, i, i + Len(p) - 1) = p

\* Python "p in s"
Contains(s, p) == \E i \in 1..(Len(s) + 1) : StartsWithAt(s, i, p)

\* str.find(p, start): the least 1-based index >= start where p occurs, 0 when none
Find(s, p, start) ==
    LET hits == {i \in start..(Len(s) + 1) : StartsWithAt(s, i, p)}
    IN  IF hits = {} THEN 0 ELSE CHOOSE i \in hits : \A j \in hits : i <= j

\* str.rfind(p): the greatest 1-based index where p occurs, 0 when none
RFind(s, p) ==
    LET hits == {i \in 1..(Len(s) + 1) : StartsWithAt(s, i, p)}
    IN  IF hits = {} THEN 0 ELSE CHOOSE i \in hits : \A j \in hits : j <= i

\* str.replace(p, r) and re.sub of a literal pattern: leftmost, non-overlapping
RECURSIVE ReplaceFrom(_, _, _, _)
ReplaceFrom(s, i, p, r) ==
    IF i > Len(s) THEN ""
    ELSE IF StartsWithAt(s, i, p) THEN r \o ReplaceFrom(s, i + Len(p), p, r)
    ELSE CharAt(s, i) \o ReplaceFrom(s, i + 1, p, r)

Replace(s, p, r) == ReplaceFrom(s, 1, p, r)

UpperCase == "ABCDEFGHIJKLMNOPQRSTUVWXYZ"
LowerCase == "abcdefghijklmnopqrstuvwxyz"

LowerChar(c) ==
    LET k == Find(UpperCase, c, 1)
    IN  IF k = 0 THEN c ELSE CharAt(LowerCase, k)

\* str.lower()
RECURSIVE LowerFrom(_, _)
LowerFrom(s, i) ==
    IF i > Len(s) THEN "" ELSE LowerChar(CharAt(s, i)) \o LowerFrom(s, i + 1)

Lower(s) == LowerFrom(s, 1)

IsLetter(c) == Contains(UpperCase, c) \/ Contains(LowerCase, c)

(***************************************************************************)
(* _shorten_link (and what it uses of urllib.parse and re)                 *)
(***************************************************************************)

SchemeChars == LowerCase \o UpperCase \o "0123456789+-."

\* urlsplit: the part of the url left after a leading "<scheme>:" is split off
AfterScheme(url) ==
    LET i == Find(url, ":", 1)
    IN  IF /\ i > 1
           /\ IsLetter(CharAt(url, 1))
           /\ \A k \in 1..(i - 1) : Contains(SchemeChars, CharAt(url, k))
        THEN Drop(url, i + 1)
        ELSE url

\* _splitnetloc(url, 2): url[2:delim], delim the first of "/", "?", "#" at or
\* after position 2 (0-based), the end of the url when there is none
SplitNetloc(url) ==
    LET ends == {Find(url, "/", 3), Find(url, "?", 3), Find(url, "#", 3)} \ {0}
        delim == IF ends = {} THEN Len(url) + 1
                 ELSE CHOOSE i \in ends : \A j \in ends : i <= j
    IN  SubSeq(url, 3, delim - 1)

\* urlparse(l).netloc
Netloc(l) ==
    LET url == AfterScheme(l)
    IN  IF StartsWithAt(url, 1, "//") THEN SplitNetloc(url) ELSE ""

\* re.search('^(.*?)/', l): the text before the first "/", "none" for no match
DomStartRe(l) ==
    LET i == Find(l, "/", 1)
    IN  IF i = 0 THEN [found |-> FALSE, group |-> ""]
        ELSE [found |-> TRUE, group |-> SubSeq(l, 1, i - 1)]

\* re.search('[^.]+\.[^.]+$', domain): the last two dot-separated parts, when
\* both are non-empty
DomRe(domain) ==
    LET last == RFind(domain, ".")
        head == SubSeq(domain, 1, last - 1)
        prev == IF last = 0 THEN 0 ELSE RFind(head, ".")
    IN  IF last = 0 \/ last = Len(domain) \/ last = prev + 1 \/ last = 1
        THEN [found |-> FALSE, group |-> ""]
        ELSE [found |-> TRUE, group |-> Drop(domain, prev + 1)]

\* the length of the prefix matched by '^https*://', 0 for no match
RECURSIVE CountS(_, _)
CountS(l, i) ==
    IF i <= Len(l) /\ CharAt(l, i) = "s" THEN 1 + CountS(l, i + 1) ELSE 0

SchemePrefixLen(l) ==
    IF ~StartsWithAt(l, 1, "http") THEN 0
    ELSE LET n == CountS(l, 5)
         IN  IF StartsWithAt(l, 5 + n, "://") THEN 4 + n + 3 ELSE 0

\* _shorten_link(l): the pair (l, domain) it returns
_shorten_link(link) ==
    LET l      == Replace(Lower(link), "www.", "")
        netloc == Netloc(l)
        domain == IF netloc = ""
                  THEN (IF DomStartRe(l).found THEN DomStartRe(l).group ELSE netloc)
                  ELSE (IF DomRe(netloc).found THEN DomRe(netloc).group ELSE netloc)
    IN  [l |-> Drop(l, SchemePrefixLen(l) + 1), domain |-> domain]

(***************************************************************************)
(* Python dictionaries: a dict is the sequence of its items in insertion   *)
(* order; assigning to a key that is present keeps the key's place.        *)
(***************************************************************************)

DictKeys(d) == [i \in 1..Len(d) |-> d[i].k]

DictHas(d, key) == \E i \in 1..Len(d) : d[i].k = key

DictGet(d, key) == d[CHOOSE i \in 1..Len(d) : d[i].k = key].v

DictSet(d, key, val) ==
    IF DictHas(d, key)
    THEN [i \in 1..Len(d) |-> IF d[i].k = key THEN [k |-> key, v |-> val] ELSE d[i]]
    ELSE Append(d, [k |-> key, v |-> val])

\* the elements of a sequence, as a set
Range(seq) == {seq[i] : i \in 1..Len(seq)}

(***************************************************************************)
(* Configuration (module-level settings of the script)                     *)
(***************************************************************************)

MAX_NODE_LINE_LENGTH == 25
BASE_EDGE_WIDTH == 2
STARTING_CLUSTER == "youtube"

\* hash of a user name -> (short name, edge colour); the hashes are cut to 8 digits
SPECIAL_USER_STYLING ==
    << [k |-> "98f9ede0", v |-> <<"Popeye", "#ff3838">>],
       [k |-> "f355412e", v |-> <<"David", "#ffd954">>] >>

(***************************************************************************)
(* GraphCreator: labels, cluster aliases, node registration                *)
(***************************************************************************)

\* str.split(sep), sep one character
RECURSIVE Split(_, _)
Split(s, sep) ==
    IF ~Contains(s, sep) THEN <<s>>
    ELSE <<SubSeq(s, 1, Find(s, sep, 1) - 1)>> \o Split(Drop(s, Find(s, sep, 1) + 1), sep)

\* _prepare_cluster_map: alias -> the whole key ("name1|name2") it comes from
RECURSIVE AddVariations(_, _, _)
AddVariations(d, variations, label) ==
    IF variations = <<>> THEN d
    ELSE AddVariations(DictSet(d, Head(variations), label), Tail(variations), label)

RECURSIVE PrepareFrom(_, _, _)
PrepareFrom(cluster_map, i, d) ==
    IF i > Len(cluster_map) THEN d
    ELSE PrepareFrom(cluster_map, i + 1,
                     AddVariations(d, Split(cluster_map[i].k, "|"), cluster_map[i].k))

_prepare_cluster_map(cluster_map) == PrepareFrom(cluster_map, 1, <<>>)

\* re.sub('[^A-Za-z ]+', '', text)
RECURSIVE EscapeFrom(_, _)
EscapeFrom(text, i) ==
    IF i > Len(text) THEN ""
    ELSE (IF IsLetter(CharAt(text, i)) \/ CharAt(text, i) = " "
          THEN CharAt(text, i) ELSE "") \o EscapeFrom(text, i + 1)

_escape_special_chars(text) == EscapeFrom(text, 1)

\* website_name_re = '(key1|key2|...)': its alternatives, in order.  The
\* aliases consist of letters, digits, "-" and "."; "." matches any character.
RECURSIVE Alternatives(_, _)
Alternatives(cluster_map, i) ==
    IF i > Len(cluster_map) THEN <<>>
    ELSE Split(cluster_map[i].k, "|") \o Alternatives(cluster_map, i + 1)

AltMatchesAt(s, i, alt) ==
    /\ i + Len(alt) - 1 <= Len(s)
    /\ \A j \in 1..Len(alt) :
          CharAt(alt, j) = "." \/ CharAt(alt, j) = CharAt(s, i + j - 1)

\* the least of a non-empty set of numbers
Min(S) == CHOOSE x \in S : \A y \in S : x <= y

\* the text the first alternative that matches at pos matches there
GroupAt(alts, s, pos) ==
    SubSeq(s, pos, pos + Len(alts[Min({a \in 1..Len(alts) : AltMatchesAt(s, pos, alts[a])})]) - 1)

SearchAlternatives(alts, s, hits) ==
    IF hits = {} THEN [found |-> FALSE, group |-> ""]
    ELSE [found |-> TRUE, group |-> GroupAt(alts, s, Min(hits))]

\* website_name_re.search(s): leftmost position, first alternative matching there
WebsiteNameSearch(alts, s) ==
    SearchAlternatives(alts, s,
        {i \in 1..(Len(s) + 1) : \E a \in 1..Len(alts) : AltMatchesAt(s, i, alts[a])})

\* urllib.parse.quote for the characters of the model's labels
QuoteChar(c) ==
    CASE c = ":" -> "%3A"
      [] c = "?" -> "%3F"
      [] c = "=" -> "%3D"
      [] c = "&" -> "%26"
      [] OTHER   -> c

RECURSIVE QuoteFrom(_, _)
QuoteFrom(s, i) ==
    IF i > Len(s) THEN "" ELSE QuoteChar(CharAt(s, i)) \o QuoteFrom(s, i + 1)

Quote(s) == QuoteFrom(s, 1)

\* '\n'.join(wrap(link, width)) for a link without white space that, when
\* longer than the width, has no hyphen: pieces of `width` characters
RECURSIVE WrapFrom(_, _, _)
WrapFrom(link, i, width) ==
    IF i + width > Len(link) THEN Drop(link, i)
    ELSE SubSeq(link, i, i + width - 1) \o "\n" \o WrapFrom(link, i + width, width)

_format_link_for_display(link) == WrapFrom(link, 1, MAX_NODE_LINE_LENGTH)

\* a registration that forgets: every call takes the next free ID (C1 fails with it)
NodeNumAlwaysNew(codes, cur, nodetext) == cur

\* the try/except of _format_node: the registered ID, or the next free one
NodeNum(codes, cur, nodetext) ==
    IF DictHas(codes, nodetext) THEN DictGet(codes, nodetext) ELSE cur

\* lines 570-574: the href attribute of a label with a "/"
UrlToSource(lowtext, url) ==
    IF ~Contains(lowtext, "/") THEN ""
    ELSE IF StartsWithAt(url, 1, "http") THEN ", href=\"" \o url \o "\""
    ELSE ", href=\"https://" \o url \o "\""

\* lines 562-568: the style of the cluster whose alias the regex finds in the
\* label; KeyError when the text it matched (through a ".") is no alias
StyleInfo(cluster_map, d2c, match) ==
    IF ~match.found THEN [err |-> FALSE, styleinfo |-> ""]
    ELSE IF ~DictHas(d2c, match.group) THEN [err |-> TRUE, styleinfo |-> ""]
    ELSE [err |-> FALSE,
          styleinfo |-> ",style=filled," \o DictGet(cluster_map, DictGet(d2c, match.group))]

\* lines 576-583: the declaration, and the registry with the node entered
NodeResult(codes, cur, nodetext, oneline_text, lowtext, node_num, style) ==
    IF style.err
    THEN [err |-> TRUE, num |-> 0, node |-> "", codes |-> codes, cur |-> cur]
    ELSE [err |-> FALSE, num |-> node_num,
          node |-> ToString(node_num) \o " [label=\"" \o nodetext \o "\", "
                     \o "tooltip=\"" \o oneline_text \o "\" "
                     \o UrlToSource(lowtext, Quote(lowtext)) \o style.styleinfo \o "]",
          codes |-> DictSet(codes, nodetext, node_num), cur |-> cur + 1]

FormatLowtext(codes, cur, cluster_map, nodetext, oneline_text, lowtext) ==
    NodeResult(codes, cur, nodetext, oneline_text, lowtext,
               NodeNum(codes, cur, nodetext),
               StyleInfo(cluster_map, _prepare_cluster_map(cluster_map),
                         WebsiteNameSearch(Alternatives(cluster_map, 1), lowtext)))

FormatOneline(codes, cur, cluster_map, nodetext, oneline_text) ==
    FormatLowtext(codes, cur, cluster_map, nodetext, oneline_text, Lower(oneline_text))

FormatNodetext(codes, cur, cluster_map, nodetext) ==
    FormatOneline(codes, cur, cluster_map, nodetext, Replace(nodetext, "\\n", ""))

\* _format_node(nodetext) on a registry (codes, cur): the ID and the node
\* declaration it returns and the registry it leaves; err when it raises
_format_node(codes, cur, cluster_map, site) ==
    FormatNodetext(codes, cur, cluster_map, Replace(site, "\n", "\\n"))

(***************************************************************************)
(* GraphCreator._make_graph_body                                           *)
(***************************************************************************)

\* clusters[name].append(slabel), creating the bucket on its first use
BucketAppend(clusters, name, slabel) ==
    IF DictHas(clusters, name)
    THEN DictSet(clusters, name, Append(DictGet(clusters, name), slabel))
    ELSE DictSet(clusters, name, <<slabel>>)

\* the name of the bucket a node goes to when alias `clustname` is in its label
BucketName(clustname) == _escape_special_chars(clustname)

\* one alias of the loop over domains_to_clusters.keys(), for the endpoint
\* (s, slabel); acc = [clusters, clusterized_nodes]
MapAlias(d2c, clustname, s, slabel, acc) ==
    IF Contains(Replace(Lower(s), "\n", ""), clustname)
    THEN [clusters |-> BucketAppend(acc.clusters, BucketName(clustname), slabel),
          clusterized_nodes |-> acc.clusterized_nodes \cup {slabel}]
    ELSE acc

RECURSIVE MapAliases(_, _, _, _, _)
MapAliases(d2c, i, s, slabel, acc) ==
    IF i > Len(d2c) THEN acc
    ELSE MapAliases(d2c, i + 1, s, slabel, MapAlias(d2c, d2c[i].k, s, slabel, acc))

\* lines 798-801: the bucket of the nodes no alias matched
MapNongrouped(slabel, m) ==
    IF slabel \notin m.clusterized_nodes
    THEN [m EXCEPT !.clusters = BucketAppend(m.clusters, "nongrouped", slabel)]
    ELSE m

MapToClusters(d2c, s, slabel, acc) ==
    MapNongrouped(slabel, MapAliases(d2c, 1, s, slabel, acc))

\* the colour of an edge: SPECIAL_USER_STYLING[author] for an attributed edge
\* (KeyError for a hash the table does not hold), '' for an edge without author
NoAuthor == ""

\* a lookup that forgives: an unknown hash gets the default colour (C9 fails with it)
EdgeColorOrDefault(author) ==
    IF author # NoAuthor /\ DictHas(SPECIAL_USER_STYLING, author)
    THEN [err |-> FALSE, color |-> DictGet(SPECIAL_USER_STYLING, author)[2]]
    ELSE [err |-> FALSE, color |-> ""]

\* line 783: SPECIAL_USER_STYLING[author], KeyError for a hash it does not hold
EdgeColor(author) ==
    IF author = NoAuthor THEN [err |-> FALSE, color |-> ""]
    ELSE IF DictHas(SPECIAL_USER_STYLING, author)
         THEN [err |-> FALSE, color |-> DictGet(SPECIAL_USER_STYLING, author)[2]]
         ELSE [err |-> TRUE, color |-> ""]

\* the state of the loop of _make_graph_body before its first iteration
BodyStart(codes, cur) ==
    [err |-> FALSE, codes |-> codes, cur |-> cur, node_map |-> <<>>, url_map |-> <<>>,
     connections |-> <<>>, clusters |-> <<>>, clusterized_nodes |-> {}]

\* lines 779-801 of an iteration: both nodes are registered (f1, f2)
BodyStepEnd(d2c, edge, st, site1, site2, f1, f2, color, acc) ==
    IF color.err THEN [st EXCEPT !.err = TRUE, !.codes = f2.codes, !.cur = f2.cur]
    ELSE [err |-> FALSE, codes |-> f2.codes, cur |-> f2.cur,
          node_map |-> DictSet(DictSet(st.node_map, f1.num, f1.node), f2.num, f2.node),
          url_map |-> DictSet(DictSet(st.url_map, f1.num, edge.source), f2.num, edge.target),
          connections |-> Append(st.connections, <<f1.num, f2.num, color.color>>),
          clusters |-> acc.clusters,
          clusterized_nodes |-> acc.clusterized_nodes]

BodyStepSecond(d2c, edge, st, site1, site2, f1, f2) ==
    IF f2.err THEN [st EXCEPT !.err = TRUE, !.codes = f1.codes, !.cur = f1.cur]
    ELSE BodyStepEnd(d2c, edge, st, site1, site2, f1, f2, EdgeColor(edge.author),
            MapToClusters(d2c, site2, f2.num,
                MapToClusters(d2c, site1, f1.num,
                    [clusters |-> st.clusters,
                     clusterized_nodes |-> st.clusterized_nodes])))

BodyStepFirst(cluster_map, edge, st, site1, site2, f1) ==
    IF f1.err THEN [st EXCEPT !.err = TRUE]
    ELSE BodyStepSecond(_prepare_cluster_map(cluster_map), edge, st, site1, site2, f1,
                        _format_node(f1.codes, f1.cur, cluster_map, site2))

BodyStepSites(cluster_map, edge, st, site1, site2) ==
    BodyStepFirst(cluster_map, edge, st, site1, site2,
                  _format_node(st.codes, st.cur, cluster_map, site1))

\* one iteration of the loop, for the edge (source, target, author)
BodyStep(cluster_map, edge, st) ==
    BodyStepSites(cluster_map, edge, st,
                  _format_link_for_display(edge.source),
                  _format_link_for_display(edge.target))

RECURSIVE BodyLoop(_, _, _, _)
BodyLoop(cluster_map, conns, i, st) ==
    IF i > Len(conns) \/ st.err THEN st
    ELSE BodyLoop(cluster_map, conns, i + 1, BodyStep(cluster_map, conns[i], st))

_make_graph_body(cluster_map, conns, codes, cur) ==
    BodyLoop(cluster_map, conns, 1, BodyStart(codes, cur))

(***************************************************************************)
(* GraphCreator.make_graph: inbound counts, node order, grid               *)
(***************************************************************************)

\* Counter(c for _,c,_ in connections), 0 for the other nodes of node_map
InboundCount(connections, n) ==
    Cardinality({i \in 1..Len(connections) : connections[i][2] = n})

ConnNum(node_map, connections) ==
    [n \in Range(DictKeys(node_map)) \cup {connections[i][2] : i \in 1..Len(connections)}
        |-> InboundCount(connections, n)]

\* sorted(nodes, key=conn_num[node[0]], reverse=True): stable, so an element
\* goes after the elements already placed whose key is >= its own
RECURSIVE InsertByInfluence(_, _, _)
InsertByInfluence(sorted, node, conn_num) ==
    IF sorted = <<>> THEN <<node>>
    ELSE IF conn_num[Head(sorted)[1]] >= conn_num[node[1]]
         THEN <<Head(sorted)>> \o InsertByInfluence(Tail(sorted), node, conn_num)
         ELSE <<node>> \o sorted

RECURSIVE SortFrom(_, _, _, _)
SortFrom(nodes, i, conn_num, sorted) ==
    IF i > Len(nodes) THEN sorted
    ELSE SortFrom(nodes, i + 1, conn_num, InsertByInfluence(sorted, nodes[i], conn_num))

_sort_by_influence(nodes, conn_num) == SortFrom(nodes, 1, conn_num, <<>>)

\* list(set(nodes)): the members once each, in the order the set yields them,
\* which the language leaves open
RECURSIVE Orderings(_)
Orderings(S) ==
    IF S = {} THEN {<<>>}
    ELSE UNION {{<<x>> \o rest : rest \in Orderings(S \ {x})} : x \in S}

\* one list(set(nodes)) per bucket of clusters: all the ways to choose them
RECURSIVE SetOrders(_, _)
SetOrders(clusters, i) ==
    IF i > Len(clusters) THEN {<<>>}
    ELSE {<<first>> \o rest : first \in Orderings(Range(clusters[i].v)),
                              rest \in SetOrders(clusters, i + 1)}

\* reorder_nodes_by_clusters given the lists unique[i] = list(set(clusters[i]))
Deduplicated(clusters, unique) ==
    [i \in 1..Len(clusters) |-> [k |-> clusters[i].k, v |-> unique[i]]]

Tagged(nodes, clustname) == [i \in 1..Len(nodes) |-> <<nodes[i], clustname>>]

RECURSIVE ReorderFrom(_, _, _, _, _, _)
ReorderFrom(clusters, unique, conn_num, i, normal_nodes, nodes_from_clusters) ==
    IF i > Len(clusters) THEN normal_nodes \o nodes_from_clusters
    ELSE IF clusters[i].k = "nongrouped"
         THEN ReorderFrom(clusters, unique, conn_num, i + 1,
                          _sort_by_influence(Tagged(unique[i], clusters[i].k), conn_num),
                          nodes_from_clusters)
         ELSE ReorderFrom(clusters, unique, conn_num, i + 1, normal_nodes,
                          nodes_from_clusters
                            \o _sort_by_influence(Tagged(unique[i], clusters[i].k), conn_num))

reorder_nodes_by_clusters(clusters, unique, conn_num) ==
    ReorderFrom(clusters, unique, conn_num, 1, <<>>, <<>>)

(***************************************************************************)
(* GraphCreator.place_nodes_in_grid and _join_columns                      *)
(***************************************************************************)

\* '' in a column: the blank that pads the last column (node IDs are >= 1)
Blank == 0

\* the nodes that are the destination of an edge (C8 fails with these as the
\* nodes of the primary column)
NodesWithInboundEdges(connections) == {connections[i][2] : i \in 1..Len(connections)}

\* set(n for n,_,_ in connections): the nodes that are the source of an edge
NodesWithOutboundEdges(connections) == {connections[i][1] : i \in 1..Len(connections)}

\* the first loop: the starting cluster's nodes with and without outbound
\* edges, and the other nodes; acc = [nodes, starting_column, leftside_column]
RECURSIVE SplitColumns(_, _, _, _, _)
SplitColumns(nodes_and_clusters, i, outbound, starting_cluster, acc) ==
    IF i > Len(nodes_and_clusters) THEN acc
    ELSE SplitColumns(nodes_and_clusters, i + 1, outbound, starting_cluster,
            IF nodes_and_clusters[i][2] = starting_cluster
            THEN IF nodes_and_clusters[i][1] \in outbound
                 THEN [acc EXCEPT !.starting_column = Append(@, nodes_and_clusters[i][1])]
                 ELSE [acc EXCEPT !.leftside_column = Append(@, nodes_and_clusters[i][1])]
            ELSE [acc EXCEPT !.nodes = Append(@, nodes_and_clusters[i][1])])

\* a column closed one node late (C4 fails with it)
ColumnFullOneLate(i, max_nodes) == i = max_nodes

\* the test that closes a column in the grouping loop
ColumnFull(i, max_nodes) == i = max_nodes - 1

\* the grouping loop; acc = [node_groups, buffer, i]
RECURSIVE GroupFrom(_, _, _, _)
GroupFrom(nodes, k, max_nodes, acc) ==
    IF k > Len(nodes)
    THEN IF acc.buffer # <<>> THEN Append(acc.node_groups, acc.buffer) ELSE acc.node_groups
    ELSE GroupFrom(nodes, k + 1, max_nodes,
            IF ColumnFull(acc.i, max_nodes)
            THEN [node_groups |-> Append(acc.node_groups, Append(acc.buffer, nodes[k])),
                  buffer |-> <<>>, i |-> 0]
            ELSE [node_groups |-> acc.node_groups,
                  buffer |-> Append(acc.buffer, nodes[k]), i |-> acc.i + 1])

GroupNodes(nodes, max_nodes) ==
    GroupFrom(nodes, 1, max_nodes, [node_groups |-> <<>>, buffer |-> <<>>, i |-> 0])

\* last_group += [''] * len_diff (node_groups is not empty)
PadBy(node_groups, len_diff) ==
    IF len_diff > 0
    THEN [node_groups EXCEPT ![Len(node_groups)] = @ \o [j \in 1..len_diff |-> Blank]]
    ELSE node_groups

PadLastGroup(node_groups) ==
    PadBy(node_groups, Len(node_groups[1]) - Len(node_groups[Len(node_groups)]))

\* list(zip(*node_groups)): row r holds entry r of every column, and there
\* are as many rows as the shortest column has entries
Transposed(node_groups) ==
    [r \in 1..Min({Len(node_groups[c]) : c \in 1..Len(node_groups)})
        |-> [c \in 1..Len(node_groups) |-> node_groups[c][r]]]

\* [str(n) for n in row if n != '']
RECURSIVE RowNames(_, _)
RowNames(row, c) ==
    IF c > Len(row) THEN <<>>
    ELSE (IF row[c] # Blank THEN <<ToString(row[c])>> ELSE <<>>) \o RowNames(row, c + 1)

RowsAsLines(rows) == [r \in 1..Len(rows) |-> RowNames(rows[r], 1)]

GraphvizLines(node_groups) == RowsAsLines(Transposed(node_groups))

\* the lines of _join_columns: <<"node", name>> for 'name[style=invis]',
\* <<"style", s>> for 'edge[style=s]', <<"edge", a, b>> for 'a -> b'
EdgesInto(col, dummy) == [i \in 1..Len(col) |-> <<"edge", ToString(col[i]), dummy>>]

EdgesOutOf(dummy, col) == [i \in 1..Len(col) |-> <<"edge", dummy, ToString(col[i])>>]

\* the loop over range(dummy_num): dummyname -> dummyname0 -> dummyname1 ...;
\* the rows it adds, and the last dummy
ChainLink(prev_dummy, dummy, rest) ==
    [rows  |-> << <<"node", dummy>>, <<"edge", prev_dummy, dummy>> >> \o rest.rows,
     dummy |-> rest.dummy]

RECURSIVE DummyChain(_, _, _, _)
DummyChain(dummyname, dummy, i, dummy_num) ==
    IF i >= dummy_num THEN [rows |-> <<>>, dummy |-> dummy]
    ELSE ChainLink(dummy, dummyname \o ToString(i),
                   DummyChain(dummyname, dummyname \o ToString(i), i + 1, dummy_num))

JoinWithChain(left_col, right_col, dummyname, chain) ==
    << <<"node", dummyname>>, <<"style", "invis">> >>
      \o EdgesInto(left_col, dummyname)
      \o chain.rows
      \o EdgesOutOf(chain.dummy, right_col)
      \o << <<"style", "solid">> >>

_join_columns(left_col, right_col, dummyname, dummy_num) ==
    JoinWithChain(left_col, right_col, dummyname,
                  IF dummy_num > 1 THEN DummyChain(dummyname, dummyname, 0, dummy_num)
                  ELSE [rows |-> <<>>, dummy |-> dummyname])

\* the number of nexus nodes chained after 'dummy' between the primary column
\* and the grid
MainDummyNum == 4

NoLayout ==
    [err |-> FALSE, nodes |-> <<>>, starting_column |-> <<>>, leftside_column |-> <<>>,
     node_groups |-> <<>>, graphviz_lines |-> <<>>, left_c |-> <<>>, main_c |-> <<>>]

\* lines 683-710: the rows of the grid and the two joining scaffolds
PlacePadded(cols, padded) ==
    [err |-> FALSE,
     nodes |-> cols.nodes,
     starting_column |-> cols.starting_column,
     leftside_column |-> cols.leftside_column,
     node_groups |-> padded,
     graphviz_lines |-> GraphvizLines(padded),
     left_c |-> IF cols.leftside_column # <<>>
                THEN _join_columns(cols.leftside_column, cols.starting_column,
                                   "first_dummy", 1)
                ELSE <<>>,
     main_c |-> IF cols.starting_column # <<>>
                THEN _join_columns(cols.starting_column, padded[1], "dummy", MainDummyNum)
                ELSE <<>>]

\* line 679: node_groups[0] raises IndexError when there is no group
PlaceGroups(cols, groups) ==
    IF groups = <<>> THEN [NoLayout EXCEPT !.err = TRUE]
    ELSE PlacePadded(cols, PadLastGroup(groups))

PlaceColumns(cols, max_nodes) == PlaceGroups(cols, GroupNodes(cols.nodes, max_nodes))

\* place_nodes_in_grid: err for the IndexError
place_nodes_in_grid(nodes_and_clusters, connections, starting_cluster, max_nodes) ==
    PlaceColumns(SplitColumns(nodes_and_clusters, 1, NodesWithOutboundEdges(connections),
                              starting_cluster,
                              [nodes |-> <<>>, starting_column |-> <<>>,
                               leftside_column |-> <<>>]),
                 max_nodes)

(***************************************************************************)
(* GraphCreator._format_edges                                              *)
(***************************************************************************)

\* a rendered edge '  name1 -> name2 [...]': colour "none" when the color
\* attribute is left out; penwidth2 is twice the penwidth, 0 when it is left out
RenderedPlain(conn) ==
    [name1 |-> conn[1], name2 |-> conn[2], color |-> conn[3], penwidth2 |-> 0]

\* a count that stays at 1 (C5 fails with it)
CountEdgeNoIncrement(conn_data, data) == DictSet(conn_data, data, 1)

\* conn_data[data] += 1, or = 1 for a new tuple
CountEdge(conn_data, data) ==
    IF DictHas(conn_data, data) THEN DictSet(conn_data, data, DictGet(conn_data, data) + 1)
    ELSE DictSet(conn_data, data, 1)

RECURSIVE CountEdges(_, _, _)
CountEdges(connections, i, conn_data) ==
    IF i > Len(connections) THEN conn_data
    ELSE CountEdges(connections, i + 1, CountEdge(conn_data, connections[i]))

\* width = BASE_EDGE_WIDTH + edge_num*0.5, doubled
RenderedCounted(item) ==
    [name1 |-> item.k[1], name2 |-> item.k[2],
     color |-> IF item.k[3] # "" THEN item.k[3] ELSE "none",
     penwidth2 |-> IF item.v > 1 THEN 2 * BASE_EDGE_WIDTH + item.v ELSE 0]

RenderedItems(conn_data) == [i \in 1..Len(conn_data) |-> RenderedCounted(conn_data[i])]

_format_edges(connections, minimize) ==
    IF ~minimize THEN [i \in 1..Len(connections) |-> RenderedPlain(connections[i])]
    ELSE RenderedItems(CountEdges(connections, 1, <<>>))

(***************************************************************************)
(* Suspect users: the user list, the hashes, the comment filter            *)
(***************************************************************************)

\* hashlib.md5(name).hexdigest() of the user names of the model, cut to 8 digits
\* like the keys of SPECIAL_USER_STYLING.  The script holds the hashes of the
\* styled accounts and not their names: "PopeyeAccount" stands for the account
\* whose hash is the first key of the table.
Md5Hex ==
    << [k |-> "Alice", v |-> "64489c85"],
       [k |-> "Bob", v |-> "2fc1c0be"],
       [k |-> "Carol", v |-> "150c16d9"],
       [k |-> "PopeyeAccount", v |-> "98f9ede0"] >>

\* lines 233-238: the hash of a name, from the cache HASHED_NAMES when it is there
hash_username(hashed, username) ==
    IF username = "" THEN ""
    ELSE IF DictHas(hashed, username) THEN DictGet(hashed, username)
    ELSE DictGet(Md5Hex, username)

\* HASHED_NAMES after hash_username(username)
HashedNamesAfter(hashed, username) ==
    IF username = "" \/ DictHas(hashed, username) THEN hashed
    ELSE Append(hashed, [k |-> username, v |-> DictGet(Md5Hex, username)])

\* the filter with the user list alone, without the keys of the styling table
\* (C15 fails with it)
IsUserFromListOnly(hashed, hashes, author) ==
    [is_special |-> hash_username(hashed, author) \in hashes,
     namehash |-> hash_username(hashed, author)]

\* _is_user_from_special_list: (is_special, namehash)
_is_user_from_special_list(hashed, hashes, author) ==
    [is_special |-> \/ hash_username(hashed, author) \in hashes
                    \/ DictHas(SPECIAL_USER_STYLING, hash_username(hashed, author)),
     namehash |-> hash_username(hashed, author)]

\* load_user_list on the text of a file: its non-empty lines
NonEmpty(lines) == SelectSeq(lines, LAMBDA l : l # "")

load_user_list(file) ==
    IF ~file.written THEN <<>> ELSE NonEmpty(Split(file.text, "\n"))

\* load_potential_troll_list: None when there is no users.txt
load_potential_troll_list(file) ==
    [none |-> ~file.written, names |-> load_user_list(file)]

\* set_special_names_and_hashes: SPECIAL_USER_HASHES and HASHED_NAMES after it
RECURSIVE HashedAll(_, _, _)
HashedAll(hashed, usernames, i) ==
    IF i > Len(usernames) THEN hashed
    ELSE HashedAll(HashedNamesAfter(hashed, usernames[i]), usernames, i + 1)

set_special_names_and_hashes(hashes, hashed, usernames) ==
    [SPECIAL_USER_HASHES |->
         hashes \cup {hash_username(hashed, usernames[i]) : i \in 1..Len(usernames)},
     HASHED_NAMES |-> HashedAll(hashed, usernames, 1)]

(***************************************************************************)
(* Pages and comments.  A page is the saved HTML file of a video: its file *)
(* name, its <title> and its comment elements in document order; a comment *)
(* has the text of its author element, the href of its permalink, its text *)
(* and the texts of the links in its body.  The texts of the model's       *)
(* comments hold no name of an author of the page, so that the regex of    *)
(* _prepare_anonymizer_regex finds nothing in them.                        *)
(***************************************************************************)

\* str.strip for blanks and line ends
RECURSIVE LStrip(_, _)
LStrip(s, chars) ==
    IF s # "" /\ Contains(chars, CharAt(s, 1)) THEN LStrip(Drop(s, 2), chars) ELSE s

RECURSIVE RStrip(_, _)
RStrip(s, chars) ==
    IF s # "" /\ Contains(chars, CharAt(s, Len(s)))
    THEN RStrip(SubSeq(s, 1, Len(s) - 1), chars) ELSE s

Strip(s) == RStrip(LStrip(s, " \n"), " \n")

\* get_title_and_link: the link of the video is taken from the first anchor
\* that is the permalink of a comment
RECURSIVE FirstCommentUrl(_, _)
FirstCommentUrl(comments, i) ==
    IF i > Len(comments) THEN ""
    ELSE IF Contains(comments[i].href, "watch?v=") /\ Contains(comments[i].href, "&lc=")
    THEN comments[i].href
    ELSE FirstCommentUrl(comments, i + 1)

VideoLink(url) ==
    IF url = "" THEN ""
    ELSE IF StartsWithAt(url, 1, "/")
    THEN "https://www.youtube.com" \o SubSeq(url, 1, Find(url, "&lc=", 1) - 1)
    ELSE SubSeq(url, 1, Find(url, "&lc=", 1) - 1)

get_title_and_link(page) ==
    [website |-> IF Contains(VideoLink(FirstCommentUrl(page.comments, 1)), "youtube")
                 THEN Strip(page.title) ELSE "",
     link |-> VideoLink(FirstCommentUrl(page.comments, 1))]

\* _replace_with_anonymous_id on t = (text, user_map)
UserNumber(user_map, user_name) ==
    IF DictHas(user_map, user_name) THEN DictGet(user_map, user_name) ELSE Len(user_map)

_replace_with_anonymous_id(t, user_name) ==
    [text |-> Replace(t.text, user_name,
                      "[USER " \o ToString(UserNumber(t.user_map, user_name)) \o "]"),
     user_map |-> DictSet(t.user_map, user_name, UserNumber(t.user_map, user_name))]

\* anonymize_mention
FirstName(user_name) == Head(Split(user_name, " "))

AnonymizeFirstName(t, user_name) ==
    IF FirstName(user_name) = user_name THEN t
    ELSE [t EXCEPT !.text =
             Replace(t.text, FirstName(user_name),
                     "[USER " \o ToString(DictGet(t.user_map, user_name)) \o " NAME]")]

anonymize_mention(t, user_mention) ==
    AnonymizeFirstName(_replace_with_anonymous_id(t, LStrip(user_mention, "@")),
                       LStrip(user_mention, "@"))

RECURSIVE AnonymizeMentions(_, _, _)
AnonymizeMentions(t, usr_mentions, i) ==
    IF i > Len(usr_mentions) THEN t
    ELSE AnonymizeMentions(anonymize_mention(t, usr_mentions[i]), usr_mentions, i + 1)

\* lines 285-288: a text that starts with "+" or "@" has its first line replaced
AnonymizeOpening(t) ==
    IF StartsWithAt(Strip(t.text), 1, "+") \/ StartsWithAt(Strip(t.text), 1, "@")
    THEN _replace_with_anonymous_id([t EXCEPT !.text = Strip(t.text)],
                                    Head(Split(Strip(t.text), "\n")))
    ELSE [t EXCEPT !.text = Strip(t.text)]

\* anonymize_names: the text of the record and the user_map it leaves
anonymize_names(usr_mentions, text, user_map) ==
    AnonymizeOpening(AnonymizeMentions([text |-> text, user_map |-> user_map],
                                       usr_mentions, 1))

\* parse_youtube_comment: a relative href is made absolute
CommentLink(href) ==
    IF StartsWithAt(href, 1, "/") THEN "www.youtube.com" \o href ELSE href

\* lines 973-976
UsrMentions(com_links) == SelectSeq(com_links, LAMBDA cl : StartsWithAt(cl, 1, "@"))

OutboundLinks(com_links) == SelectSeq(com_links, LAMBDA cl : ~StartsWithAt(cl, 1, "@"))

\* lines 223, 968, 980: the record [author, hash, comment link, text, links]
ComData(com, namehash, text) ==
    [author |-> Strip(com.author),
     ahash |-> namehash,
     comment_link |-> CommentLink(com.href),
     text |-> text,
     links |-> OutboundLinks(com.links)]

\* lines 960-981: one comment; st = (HASHED_NAMES, user_map, troll_comments)
AppendComData(com, st, namehash, t) ==
    [hashed |-> HashedNamesAfter(st.hashed, Strip(com.author)),
     user_map |-> t.user_map,
     troll_comments |-> Append(st.troll_comments, ComData(com, namehash, t.text))]

FilterComment(hashes, com, st) ==
    IF ~_is_user_from_special_list(st.hashed, hashes, Strip(com.author)).is_special
    THEN [st EXCEPT !.hashed = HashedNamesAfter(st.hashed, Strip(com.author))]
    ELSE AppendComData(com, st,
                       _is_user_from_special_list(st.hashed, hashes,
                                                  Strip(com.author)).namehash,
                       anonymize_names(UsrMentions(com.links), com.text, st.user_map))

RECURSIVE FilterComments(_, _, _, _)
FilterComments(hashes, comments, st, i) ==
    IF i > Len(comments) THEN st
    ELSE FilterComments(hashes, comments, FilterComment(hashes, comments[i], st), i + 1)

\* lines 986-988
SiteData(page, troll_comments) ==
    [name |-> "youtube",
     website |-> get_title_and_link(page).website,
     link |-> get_title_and_link(page).link,
     main_links |-> <<>>,
     troll_comments |-> troll_comments,
     refs_to_trolls |-> <<>>]

PageParsed(page, ps, st) ==
    [data_container |-> Append(ps.data_container, SiteData(page, st.troll_comments)),
     user_map |-> st.user_map,
     hashed |-> st.hashed,
     parsed |-> Append(ps.parsed, page.name),
     errors |-> ps.errors]

\* prepare_website_data(html_file, data_container, user_map) on
\* ps = (data_container, user_map, HASHED_NAMES, parsed files, errors logged)
prepare_website_data(hashes, page, ps) ==
    IF page.comments = <<>>
    THEN [ps EXCEPT !.parsed = Append(ps.parsed, page.name),
                    !.errors = Append(ps.errors, "No comments found in " \o page.name)]
    ELSE PageParsed(page, ps,
                    FilterComments(hashes, page.comments,
                                   [hashed |-> ps.hashed, user_map |-> ps.user_map,
                                    troll_comments |-> <<>>], 1))

\* the loop given up at the first page without comments (C12 fails with it)
RECURSIVE PrepareUntilBadPage(_, _, _, _)
PrepareUntilBadPage(hashes, html_files, ps, i) ==
    IF i > Len(html_files) THEN ps
    ELSE IF html_files[i].comments = <<>>
    THEN prepare_website_data(hashes, html_files[i], ps)
    ELSE PrepareUntilBadPage(hashes, html_files,
                             prepare_website_data(hashes, html_files[i], ps), i + 1)

\* lines 899-900: the loop over the files
RECURSIVE PrepareAll(_, _, _, _)
PrepareAll(hashes, html_files, ps, i) ==
    IF i > Len(html_files) THEN ps
    ELSE PrepareAll(hashes, html_files, prepare_website_data(hashes, html_files[i], ps),
                    i + 1)

\* lines 897-901 of get_website_data: every file parsed from scratch
PreparedFromScratch(hashes, hashed, html_files) ==
    PrepareAll(hashes, html_files,
               [data_container |-> <<>>, user_map |-> <<>>, hashed |-> hashed,
                parsed |-> <<>>, errors |-> <<>>], 1)

\* line 1107: the files of the folder with the suffix .html, in the order
\* iterdir() gives them
Suffix(name) == IF RFind(name, ".") <= 1 THEN "" ELSE Drop(name, RFind(name, "."))

HtmlFiles(folder) == SelectSeq(folder, LAMBDA p : Suffix(p.name) = ".html")

(***************************************************************************)
(* get_links_and_comments                                                  *)
(***************************************************************************)

\* urlparse(l).path: what is left of the url without scheme, netloc,
\* fragment and query
AfterNetloc(url) ==
    IF StartsWithAt(url, 1, "//") THEN Drop(url, 3 + Len(SplitNetloc(url))) ELSE url

Before(s, c) == IF Contains(s, c) THEN SubSeq(s, 1, Find(s, c, 1) - 1) ELSE s

UrlPath(l) == Before(Before(AfterNetloc(AfterScheme(l)), "#"), "?")

\* lines 1009-1010 (and 1022-1023)
TrimmedLink(link) == Replace(RStrip(link, "/"), ".html", "")

\* every link seen before skipped, with or without a path (C18 fails with it)
IsRepeatedLink(website_links, link) == link \in website_links

\* lines 1011-1015: the page is skipped as a duplicate; a link seen before
\* that has no path ("just the domain") is let through
IsSkippedDuplicate(website_links, link) ==
    link \in website_links /\ UrlPath(link) # ""

EndsWith(s, p) == Len(p) <= Len(s) /\ Drop(s, Len(s) - Len(p) + 1) = p

\* line 1020
IsImage(l) == EndsWith(l, ".png") \/ EndsWith(l, ".jpg")

\* line 1040
IsFakeLink(l) == ~Contains(l, ".") \/ ~Contains(l, "/")

\* lines 1025 and 1042: ((website, None), (l, domain), ahash, name)
ConnInfo(website, short, ahash, name) ==
    [source |-> website, target |-> short.l, domain |-> short.domain,
     author |-> ahash, name |-> name]

RECURSIVE MainEdges(_, _, _, _)
MainEdges(website, name, main_links, i) ==
    IF i > Len(main_links) THEN <<>>
    ELSE IF IsImage(main_links[i]) THEN MainEdges(website, name, main_links, i + 1)
    ELSE <<ConnInfo(website, _shorten_link(TrimmedLink(main_links[i])), NoAuthor, name)>>
         \o MainEdges(website, name, main_links, i + 1)

RECURSIVE LinkEdges(_, _, _, _)
LinkEdges(website, ahash, troll_links, i) ==
    IF i > Len(troll_links) THEN <<>>
    ELSE IF IsFakeLink(troll_links[i]) THEN LinkEdges(website, ahash, troll_links, i + 1)
    ELSE <<ConnInfo(website, _shorten_link(troll_links[i]), ahash, "")>>
         \o LinkEdges(website, ahash, troll_links, i + 1)

\* try: d[key].append(val) / except KeyError: d[key] = [val]
MapAppend(d, key, val) ==
    IF DictHas(d, key) THEN DictSet(d, key, Append(DictGet(d, key), val))
    ELSE DictSet(d, key, <<val>>)

\* try: d[key] += 1 / except KeyError: d[key] = 1
CountUp(d, key) ==
    IF DictHas(d, key) THEN DictSet(d, key, DictGet(d, key) + 1) ELSE DictSet(d, key, 1)

\* lines 1029-1043; gs = (connections, website_links, troll_map, trolls_by_name,
\* warnings logged)
RECURSIVE TrollComments(_, _, _, _)
TrollComments(website, troll_comments, gs, i) ==
    IF i > Len(troll_comments) THEN gs
    ELSE TrollComments(website, troll_comments,
             [gs EXCEPT !.trolls_by_name = CountUp(@, troll_comments[i].author),
                        !.troll_map = MapAppend(@, website, troll_comments[i]),
                        !.connections = @ \o LinkEdges(website, troll_comments[i].ahash,
                                                       troll_comments[i].links, 1)],
             i + 1)

\* line 1006
WebsiteName(site) == IF site.website = "" THEN site.link ELSE site.website

\* lines 1003-1043: one record of data
WebsiteData(site, gs) ==
    IF IsSkippedDuplicate(gs.website_links, TrimmedLink(site.link))
    THEN [gs EXCEPT !.warnings = Append(@, "Found duplicate of " \o TrimmedLink(site.link))]
    ELSE TrollComments(WebsiteName(site), site.troll_comments,
             [gs EXCEPT !.website_links = @ \cup {TrimmedLink(site.link)},
                        !.connections = @ \o MainEdges(WebsiteName(site), site.name,
                                                       site.main_links, 1)],
             1)

RECURSIVE LinksFrom(_, _, _)
LinksFrom(data, gs, i) ==
    IF i > Len(data) THEN gs ELSE LinksFrom(data, WebsiteData(data[i], gs), i + 1)

get_links_and_comments(data) ==
    LinksFrom(data,
              [connections |-> <<>>, website_links |-> {}, troll_map |-> <<>>,
               trolls_by_name |-> <<>>, warnings |-> <<>>], 1)

(***************************************************************************)
(* The text files of RESULT_FOLDER                                         *)
(***************************************************************************)

\* sep.join(lines)
RECURSIVE Join(_, _)
Join(lines, sep) ==
    IF lines = <<>> THEN ""
    ELSE IF Len(lines) = 1 THEN lines[1]
    ELSE lines[1] \o sep \o Join(Tail(lines), sep)

\* _save_website_data: the texts of website_links.txt and websites.txt
WebsiteLinksText(website_data) ==
    Join([i \in 1..Len(website_data) |-> website_data[i].link], "\n")

WebsitesText(website_data) ==
    Join([i \in 1..Len(website_data) |-> website_data[i].website], "\n")

\* lines 335-341: the comment number i of a website
ComAsText(i, com_data) ==
    "====\n" \o ToString(i) \o "\n"
    \o DictGet(SPECIAL_USER_STYLING, com_data.ahash)[1] \o "\n"
    \o com_data.comment_link \o "\n---\n" \o com_data.text \o "\n"

WebsiteTextlines(website, comments) ==
    <<"\n\n### " \o website \o " ###\n\n">>
    \o [i \in 1..Len(comments) |-> ComAsText(i - 1, comments[i])]

RECURSIVE CommentTextlines(_, _)
CommentTextlines(trolls_by_website, i) ==
    IF i > Len(trolls_by_website) THEN <<>>
    ELSE WebsiteTextlines(trolls_by_website[i].k, trolls_by_website[i].v)
         \o CommentTextlines(trolls_by_website, i + 1)

\* line 336 raises KeyError for a hash that is no key of SPECIAL_USER_STYLING
HasUnstyledComment(trolls_by_website) ==
    \E i \in 1..Len(trolls_by_website) :
        \E j \in 1..Len(trolls_by_website[i].v) :
            ~DictHas(SPECIAL_USER_STYLING, trolls_by_website[i].v[j].ahash)

\* _save_comments: the text of comments.txt, err when it raises before the
\* file is opened
_save_comments(trolls_by_website) ==
    IF HasUnstyledComment(trolls_by_website) THEN [err |-> TRUE, text |-> ""]
    ELSE [err |-> FALSE, text |-> Join(CommentTextlines(trolls_by_website, 1), "\n")]

\* _get_url_counts: Counter(destinations).items(), sorted by number, grouped
\* by domain
Destination(conn) == [url |-> conn.target, domain |-> conn.domain]

RECURSIVE DestinationCounts(_, _, _)
DestinationCounts(conns, counts, i) ==
    IF i > Len(conns) THEN counts
    ELSE DestinationCounts(conns, CountUp(counts, Destination(conns[i])), i + 1)

RECURSIVE InsertByNumber(_, _)
InsertByNumber(sorted, item) ==
    IF sorted = <<>> THEN <<item>>
    ELSE IF item.v < Head(sorted).v THEN <<item>> \o sorted
    ELSE <<Head(sorted)>> \o InsertByNumber(Tail(sorted), item)

RECURSIVE SortedByNumber(_, _)
SortedByNumber(counts, i) ==
    IF i = 0 THEN <<>> ELSE InsertByNumber(SortedByNumber(counts, i - 1), counts[i])

RECURSIVE CountsByDomain(_, _, _)
CountsByDomain(counts, by_domain, i) ==
    IF i > Len(counts) THEN by_domain
    ELSE CountsByDomain(counts,
                        MapAppend(by_domain, counts[i].k.domain,
                                  [url |-> counts[i].k.url, num |-> counts[i].v]),
                        i + 1)

_get_url_counts(conns) ==
    CountsByDomain(SortedByNumber(DestinationCounts(conns, <<>>, 1),
                                  Len(DestinationCounts(conns, <<>>, 1))),
                   <<>>, 1)

\* _save_url_counts: the text of links.txt
RECURSIVE TotalCount(_, _)
TotalCount(url_counts, i) ==
    IF i > Len(url_counts) THEN 0 ELSE url_counts[i].num + TotalCount(url_counts, i + 1)

DomainTextlines(domain, url_counts) ==
    <<"\n## " \o domain \o " (" \o ToString(TotalCount(url_counts, 1)) \o ")\n">>
    \o [i \in 1..Len(url_counts) |->
           url_counts[i].url \o " (" \o ToString(url_counts[i].num) \o ")"]

RECURSIVE UrlCountTextlines(_, _)
UrlCountTextlines(url_count_by_domain, i) ==
    IF i > Len(url_count_by_domain) THEN <<>>
    ELSE DomainTextlines(url_count_by_domain[i].k, url_count_by_domain[i].v)
         \o UrlCountTextlines(url_count_by_domain, i + 1)

LinksText(conns) == Join(UrlCountTextlines(_get_url_counts(conns), 1), "\n")

(***************************************************************************)
(* State                                                                   *)
(***************************************************************************)

VARIABLES
    \* settings
    cluster_map,            \* WEBSITES_TO_CLUSTERS, given to GraphCreator as cluster_map
    MAX_NODES_IN_COLUMN,
    MINIMIZE_EDGE_NUMBER,
    GRAPH_ENGINES,
    \* GraphCreator
    pc,                     \* where make_graph is: "start", "body", "ordered", "placed",
                            \* "formatted", "engines", "blocked", "done", "error"
    self_connections,       \* GraphCreator.connections: records (source, target, author)
    _node_codes,            \* label -> node ID
    _current_node_num,
    node_map,               \* node ID -> node declaration
    url_map,                \* node ID -> link
    connections,            \* make_graph's connections: (name1, name2, edgecolor)
    clusters,               \* bucket name -> node IDs
    conn_num,               \* node ID -> number of inbound edges
    ordered_nodes,          \* (node ID, bucket name), as reorder_nodes_by_clusters returns
    layout,                 \* what place_nodes_in_grid built
    edges_out,              \* what _format_edges returns
    second,                 \* the layout of a second run on the same input
    \* _save_graph_to_file
    gv_file,                \* LinkGraph/graph.gv: the document, NoFile when absent
    svg_files,              \* the SVG files in LinkGraph
    engine_i,               \* position of the loop over GRAPH_ENGINES
    attempted,              \* the engines Popen was called for, in order
    \* canonicalisation of one link
    lpc,                    \* "idle", "start", "once", "twice"
    link_in,                \* the link string given to _shorten_link
    short1,                 \* _shorten_link(link_in)
    short2,                 \* _shorten_link(short1.l)
    \* the working folder
    folder,                 \* its files other than users.txt, as iterdir() lists them
    users_txt,              \* users.txt: NoFile when absent, else its text
    cache_file,             \* cached_content/website_data.json: NoFile or its data
    text_files,             \* TextSummaries: file name -> text
    \* one run of the script
    run,                    \* the number of the run
    ppc,                    \* where the run is: "off" (no run), "main", "analyze",
                            \* "loaded", "saved", "found", "graph", "end", "traceback"
    SPECIAL_USER_HASHES,
    HASHED_NAMES,           \* user name -> hash
    data,                   \* what get_website_data returned
    found,                  \* what get_links_and_comments returned
    parsed,                 \* the files this run gave to BeautifulSoup, in order
    log,                    \* the errors and warnings this run logged
    written,                \* the text and cache files this run opened for writing
    returned,               \* what get_website_data returned, run by run
    instance                \* the number of GraphCreator instances of the process

settingVars == <<cluster_map, MAX_NODES_IN_COLUMN, MINIMIZE_EDGE_NUMBER, GRAPH_ENGINES>>

registryVars == <<_node_codes, _current_node_num>>

bodyVars == <<node_map, url_map, connections, clusters>>

layoutVars == <<conn_num, ordered_nodes, layout>>

saveVars == <<gv_file, svg_files, engine_i, attempted>>

linkVars == <<lpc, link_in, short1, short2>>

folderVars == <<folder, users_txt, cache_file, text_files>>

runVars == <<run, ppc, SPECIAL_USER_HASHES, HASHED_NAMES, data, found, parsed, log,
             written, returned>>

pipeVars == <<folderVars, runVars, instance>>

vars == <<settingVars, pc, self_connections, registryVars, bodyVars, layoutVars,
          edges_out, second, saveVars, linkVars, pipeVars>>

(***************************************************************************)
(* The inputs of the model                                                 *)
(***************************************************************************)

MaxEdges == 2
MaxAttributedEdges == 3
MaxColumn == 2
MaxEngines == 2
MaxLinkParts == 3

\* cluster tables: the shape of the script's own (two aliases of the starting
\* cluster) and the "foo|bar" of the specification's scenario
YoutubeFirst ==
    << [k |-> "youtube|youtu.be", v |-> "color=red,fontcolor=black"],
       [k |-> "foo|bar", v |-> "color=green,fontcolor=black"] >>

FooFirst ==
    << [k |-> "foo|bar", v |-> "color=green,fontcolor=black"],
       [k |-> "youtube", v |-> "color=red,fontcolor=black"] >>

ClusterMaps == {YoutubeFirst, FooFirst}

\* pages (sources of edges) and links found in comments (targets)
SourceLinks == {"https://www.youtube.com/watch?v=a1", "x.com/blog"}

TargetLinks == {"youtu.be/b2", "bar-site.com", "foo.org/p", "x.com/blog",
                "youtube.com/foo", "youtu-be.com"}

UnknownHash == "0badc0de"

EdgeLists(sources, targets, authors, max) ==
    UNION {[1..n -> [source : sources, target : targets, author : authors]] : n \in 0..max}

\* the comments of the pages: by an account of SPECIAL_USER_STYLING, by an
\* account that users.txt may name, and by somebody else
PopeyeComment ==
    [author |-> "PopeyeAccount", href |-> "/watch?v=a1&lc=c1", text |-> "see this foo.org/p",
     links |-> <<"foo.org/p">>]

AliceComment ==
    [author |-> " Alice", href |-> "https://www.youtube.com/watch?v=a2&lc=c2",
     text |-> "@Bob thanks x.com/blog", links |-> <<"@Bob", "x.com/blog">>]

CarolComment ==
    [author |-> "Carol", href |-> "/watch?v=a1&lc=c3", text |-> "hello", links |-> <<>>]

\* saved pages: two videos, a page without comments, a second copy of the
\* first video; and a file that is no page
VideoPage ==
    [name |-> "v1.html", title |-> "Video1-YouTube",
     comments |-> <<CarolComment, PopeyeComment>>]

Pages ==
    { VideoPage,
      [name |-> "v2.html", title |-> "Video2-YouTube", comments |-> <<AliceComment>>],
      [name |-> "empty.html", title |-> "Saved", comments |-> <<>>],
      [name |-> "v1-copy.html", title |-> "Video1-YouTube",
       comments |-> <<PopeyeComment, CarolComment>>] }

Notes == [name |-> "notes.txt", title |-> "", comments |-> <<>>]

MaxPages == 2
MaxRuns == 2

Folders ==
    {<<Notes>> \o pages :
        pages \in {ps \in UNION {[1..n -> Pages] : n \in 0..MaxPages} :
                      \A i, j \in DOMAIN ps : i # j => ps[i].name # ps[j].name}}

\* a file that is not there
NoFile == [written |-> FALSE]

\* users.txt: absent, without a name, with names
UserFiles ==
    {NoFile,
     [written |-> TRUE, text |-> "\n"],
     [written |-> TRUE, text |-> "Alice\n"],
     [written |-> TRUE, text |-> "Bob\n\nAlice"]}

\* records of pages as get_links_and_comments gets them from the cache file:
\* links with and without a path, with and without "/" or ".html" at the end;
\* the record number i has one comment, with the permalink number i
MaxRecords == 4

RecordLinks ==
    {"https://example.com", "https://example.com/", "https://example.com/a.html",
     "https://example.com/a", "example.com"}

SiteRecord(link, i) ==
    [name |-> "youtube", website |-> "", link |-> link, main_links |-> <<>>,
     troll_comments |->
         << [author |-> "PopeyeAccount", ahash |-> "98f9ede0",
             comment_link |-> link \o "&lc=c" \o ToString(i),
             text |-> "see this foo.org/p", links |-> <<"foo.org/p">>] >>,
     refs_to_trolls |-> <<>>]

RecordLists ==
    UNION {{[i \in 1..n |-> SiteRecord(links[i], i)] : links \in [1..n -> RecordLinks]} :
              n \in 1..MaxRecords}

EngineNames == {"dot", "neato"}

EngineLists == UNION {[1..n -> EngineNames] : n \in 0..MaxEngines}

LinkParts == {"http://", "https://", "www.", "www", ".", "mail.",
              "Example.com", "/Page.html"}

RECURSIVE Concat(_)
Concat(parts) == IF parts = <<>> THEN "" ELSE Head(parts) \o Concat(Tail(parts))

LinkInputs ==
    {Concat(parts) : parts \in UNION {[1..n -> LinkParts] : n \in 0..MaxLinkParts}}

(***************************************************************************)
(* Initial states                                                          *)
(***************************************************************************)

NoResult == [l |-> "", domain |-> ""]

NoSecond == [done |-> FALSE, ordered_nodes |-> <<>>, layout |-> NoLayout]

\* a GraphCreator just constructed and given its connections (lines 1134-1135),
\* nothing saved yet
FreshGraphCreator ==
    /\ pc = "start"
    /\ _node_codes = <<>>
    /\ _current_node_num = 1
    /\ node_map = <<>>
    /\ url_map = <<>>
    /\ connections = <<>>
    /\ clusters = <<>>
    /\ conn_num = <<>>
    /\ ordered_nodes = <<>>
    /\ layout = NoLayout
    /\ edges_out = <<>>
    /\ second = NoSecond
    /\ gv_file = NoFile
    /\ svg_files = {}
    /\ engine_i = 1
    /\ attempted = <<>>

\* no GraphCreator has been made
NoGraphCreator ==
    /\ pc = "idle"
    /\ _node_codes = <<>>
    /\ _current_node_num = 1
    /\ node_map = <<>>
    /\ url_map = <<>>
    /\ connections = <<>>
    /\ clusters = <<>>
    /\ conn_num = <<>>
    /\ ordered_nodes = <<>>
    /\ layout = NoLayout
    /\ edges_out = <<>>
    /\ second = NoSecond
    /\ engine_i = 1
    /\ attempted = <<>>

NoLinkRun ==
    /\ lpc = "idle"
    /\ link_in = ""
    /\ short1 = NoResult
    /\ short2 = NoResult

NoFound == [connections |-> <<>>, troll_map |-> <<>>]

\* the memory of a process in which nothing has run yet
FreshProcess ==
    /\ SPECIAL_USER_HASHES = {}
    /\ HASHED_NAMES = <<>>
    /\ data = <<>>
    /\ found = NoFound
    /\ parsed = <<>>
    /\ log = <<>>
    /\ written = {}

\* no run of the whole script: a GraphCreator is given its connections directly
NoPipeline ==
    /\ folder = <<>>
    /\ users_txt = NoFile
    /\ cache_file = NoFile
    /\ text_files = <<>>
    /\ run = 1
    /\ ppc = "off"
    /\ FreshProcess
    /\ returned = <<>>
    /\ instance = 1

\* the layout of graphs of pages and links, with the script's own settings for
\* edges and engines (lines 112-113)
InitGraph ==
    /\ cluster_map \in ClusterMaps
    /\ MAX_NODES_IN_COLUMN \in 1..MaxColumn
    /\ MINIMIZE_EDGE_NUMBER = FALSE
    /\ GRAPH_ENGINES = <<"dot">>
    /\ self_connections \in EdgeLists(SourceLinks, TargetLinks, {NoAuthor}, MaxEdges)
    /\ FreshGraphCreator
    /\ NoPipeline
    /\ NoLinkRun

\* edges with and without attribution, drawn one by one or collapsed
InitAttributed ==
    /\ cluster_map = YoutubeFirst
    /\ MAX_NODES_IN_COLUMN = MaxColumn
    /\ MINIMIZE_EDGE_NUMBER \in BOOLEAN
    /\ GRAPH_ENGINES = <<"dot">>
    /\ self_connections \in
          EdgeLists({"youtube.com/foo"}, {"x.com/blog", "foo.org/p"},
                    {NoAuthor, UnknownHash} \cup Range(DictKeys(SPECIAL_USER_STYLING)),
                    MaxAttributedEdges)
    /\ FreshGraphCreator
    /\ NoPipeline
    /\ NoLinkRun

\* the graphs of InitGraph with the widest column, each laid out twice
InitRepeat ==
    /\ cluster_map \in ClusterMaps
    /\ MAX_NODES_IN_COLUMN = MaxColumn
    /\ MINIMIZE_EDGE_NUMBER = FALSE
    /\ GRAPH_ENGINES = <<"dot">>
    /\ self_connections \in EdgeLists(SourceLinks, TargetLinks, {NoAuthor}, MaxEdges)
    /\ FreshGraphCreator
    /\ NoPipeline
    /\ NoLinkRun

\* one small graph rendered by every list of engines
InitSave ==
    /\ cluster_map \in ClusterMaps
    /\ MAX_NODES_IN_COLUMN = MaxColumn
    /\ MINIMIZE_EDGE_NUMBER = FALSE
    /\ GRAPH_ENGINES \in EngineLists
    /\ self_connections \in EdgeLists({"youtube.com/foo"}, {"x.com/blog"}, {NoAuthor}, 1)
    /\ FreshGraphCreator
    /\ NoPipeline
    /\ NoLinkRun

InitLink ==
    /\ cluster_map = <<>>
    /\ MAX_NODES_IN_COLUMN = MaxColumn
    /\ MINIMIZE_EDGE_NUMBER = FALSE
    /\ GRAPH_ENGINES = <<"dot">>
    /\ self_connections = <<>>
    /\ FreshGraphCreator
    /\ NoPipeline
    /\ lpc = "start"
    /\ link_in \in LinkInputs
    /\ short1 = NoResult
    /\ short2 = NoResult

(***************************************************************************)
(* make_graph, step by step                                                *)
(***************************************************************************)

\* line 809: _make_graph_body returns b, or raises KeyError, which ends make_graph
BodyReturns(b) ==
    /\ _node_codes' = b.codes
    /\ _current_node_num' = b.cur
    /\ pc' = IF b.err THEN "error" ELSE "body"
    /\ node_map' = b.node_map
    /\ url_map' = b.url_map
    /\ connections' = b.connections
    /\ clusters' = b.clusters

MakeGraphBody ==
    /\ pc = "start"
    /\ BodyReturns(_make_graph_body(cluster_map, self_connections, _node_codes,
                                    _current_node_num))
    /\ UNCHANGED <<settingVars, self_connections, layoutVars, edges_out, second,
                   saveVars, linkVars,
                   pipeVars>>

\* lines 812-819: the inbound counts and reorder_nodes_by_clusters, which also
\* replaces every bucket by its list(set(...))
ReorderNodes ==
    /\ pc = "body"
    /\ conn_num' = ConnNum(node_map, connections)
    /\ \E unique \in SetOrders(clusters, 1) :
          /\ clusters' = Deduplicated(clusters, unique)
          /\ ordered_nodes' = reorder_nodes_by_clusters(clusters, unique, conn_num')
    /\ pc' = "ordered"
    /\ UNCHANGED <<settingVars, self_connections, registryVars, node_map, url_map,
                   connections, layout, edges_out, second, saveVars, linkVars,
                   pipeVars>>

\* line 820: place_nodes_in_grid; its IndexError ends make_graph
PlaceNodes ==
    /\ pc = "ordered"
    /\ layout' = place_nodes_in_grid(ordered_nodes, connections, STARTING_CLUSTER,
                                     MAX_NODES_IN_COLUMN)
    /\ pc' = IF layout'.err THEN "error" ELSE "placed"
    /\ UNCHANGED <<settingVars, self_connections, registryVars, bodyVars, conn_num,
                   ordered_nodes, edges_out, second, saveVars, linkVars,
                   pipeVars>>

\* line 827: _format_edges
FormatEdges ==
    /\ pc = "placed"
    /\ edges_out' = _format_edges(connections, MINIMIZE_EDGE_NUMBER)
    /\ pc' = "formatted"
    /\ UNCHANGED <<settingVars, self_connections, registryVars, bodyVars, layoutVars,
                   second, saveVars, linkVars,
                   pipeVars>>

(***************************************************************************)
(* _save_graph_to_file                                                     *)
(***************************************************************************)

\* lines 822-834: the document put together from the node declarations in
\* their order, the grid and the edges
GraphDocument ==
    [written |-> TRUE,
     node_info |-> [i \in 1..Len(ordered_nodes) |-> DictGet(node_map, ordered_nodes[i][1])],
     grid_info |-> <<layout.left_c, layout.main_c, layout.graphviz_lines>>,
     conns |-> edges_out]

\* lines 842-847: graph.gv is written
WriteGraphFile ==
    /\ pc = "formatted"
    /\ gv_file' = GraphDocument
    /\ engine_i' = 1
    /\ pc' = IF GRAPH_ENGINES = <<>> THEN "done" ELSE "engines"
    /\ UNCHANGED <<settingVars, self_connections, registryVars, bodyVars, layoutVars,
                   edges_out, second, svg_files, attempted, linkVars,
                   pipeVars>>

\* what can happen to one engine: Popen raises (no such program), the process
\* ends having written the SVG, ends without it (a crash), or never ends
EngineOutcomes == {"missing", "rendered", "crashed", "hangs"}

\* lines 849-860: one iteration of the loop over GRAPH_ENGINES.  gviz.wait()
\* has no timeout: with a process that never ends the loop stays in the wait
SvgOutpath(engine_name) == CharAt(engine_name, 1) \o "graph.svg"

RunEngine ==
    /\ pc = "engines"
    /\ \E outcome \in EngineOutcomes :
          /\ attempted' = Append(attempted, GRAPH_ENGINES[engine_i])
          /\ svg_files' = IF outcome = "rendered"
                          THEN svg_files \cup {SvgOutpath(GRAPH_ENGINES[engine_i])}
                          ELSE svg_files
          /\ IF outcome = "hangs"
             THEN /\ pc' = "blocked"
                  /\ engine_i' = engine_i
             ELSE /\ pc' = IF engine_i = Len(GRAPH_ENGINES) THEN "done" ELSE "engines"
                  /\ engine_i' = engine_i + 1
    /\ UNCHANGED <<settingVars, self_connections, registryVars, bodyVars, layoutVars,
                   edges_out, second, gv_file, linkVars,
                   pipeVars>>

Next ==
    \/ MakeGraphBody
    \/ ReorderNodes
    \/ PlaceNodes
    \/ FormatEdges
    \/ WriteGraphFile
    \/ RunEngine

SpecGraph == InitGraph /\ [][Next]_vars

SpecAttributed == InitAttributed /\ [][Next]_vars

\* the loop over the engines goes on: an iteration that can be taken is taken
\* (nothing in the script interrupts it); a wait() that never returns leaves
\* no iteration to take
SpecSave == InitSave /\ [][Next]_vars /\ WF_vars(RunEngine)

(***************************************************************************)
(* The layout of a second run of the script on the same input              *)
(***************************************************************************)

SecondLayout(b, ordered) ==
    [done |-> TRUE,
     ordered_nodes |-> ordered,
     layout |-> place_nodes_in_grid(ordered, b.connections, STARTING_CLUSTER,
                                    MAX_NODES_IN_COLUMN)]

SecondReorder(b, cn) ==
    \E unique \in SetOrders(b.clusters, 1) :
        second' = SecondLayout(b, reorder_nodes_by_clusters(b.clusters, unique, cn))

SecondBody(b) == SecondReorder(b, ConnNum(b.node_map, b.connections))

SecondLayoutRun ==
    /\ pc = "placed"
    /\ ~second.done
    /\ SecondBody(_make_graph_body(cluster_map, self_connections, <<>>, 1))
    /\ UNCHANGED <<settingVars, pc, self_connections, registryVars, bodyVars, layoutVars,
                   edges_out, saveVars, linkVars,
                   pipeVars>>

NextRepeat == Next \/ SecondLayoutRun

SpecRepeat == InitRepeat /\ [][NextRepeat]_vars

(***************************************************************************)
(* Canonicalising a link, and canonicalising the result again              *)
(***************************************************************************)

ShortenLink ==
    /\ lpc = "start"
    /\ short1' = _shorten_link(link_in)
    /\ lpc' = "once"
    /\ UNCHANGED <<settingVars, pc, self_connections, registryVars, bodyVars, layoutVars,
                   edges_out, second, saveVars, link_in, short2,
                   pipeVars>>

ShortenAgain ==
    /\ lpc = "once"
    /\ short2' = _shorten_link(short1.l)
    /\ lpc' = "twice"
    /\ UNCHANGED <<settingVars, pc, self_connections, registryVars, bodyVars, layoutVars,
                   edges_out, second, saveVars, link_in, short1,
                   pipeVars>>

NextLink == ShortenLink \/ ShortenAgain

SpecLink == InitLink /\ [][NextLink]_vars

(***************************************************************************)
(* Runs of the whole script in one folder                                  *)
(***************************************************************************)

\* the script starts in a folder with no file of an earlier run, with its own
\* cluster table and settings
InitPipeline ==
    /\ cluster_map = YoutubeFirst
    /\ MAX_NODES_IN_COLUMN = MaxColumn
    /\ MINIMIZE_EDGE_NUMBER = FALSE
    /\ GRAPH_ENGINES = <<"dot">>
    /\ self_connections = <<>>
    /\ NoGraphCreator
    /\ gv_file = NoFile
    /\ svg_files = {}
    /\ NoLinkRun
    /\ folder \in Folders
    /\ users_txt \in UserFiles
    /\ cache_file = NoFile
    /\ text_files = <<>>
    /\ run = 1
    /\ ppc = "main"
    /\ FreshProcess
    /\ returned = <<>>
    /\ instance = 0

\* lines 1209-1212: the user list is loaded; without a name the script does
\* nothing more
NamesLoaded(special) ==
    /\ SPECIAL_USER_HASHES' = special.SPECIAL_USER_HASHES
    /\ HASHED_NAMES' = special.HASHED_NAMES
    /\ ppc' = "analyze"
    /\ log' = log

NoNames(users) ==
    /\ ppc' = "end"
    /\ log' = IF users.none THEN Append(log, "No list of suspected troll account names")
              ELSE log
    /\ UNCHANGED <<SPECIAL_USER_HASHES, HASHED_NAMES>>

\* the script going on without a name (C13 fails with it)
UsersLoadedAnyway(users) ==
    NamesLoaded(set_special_names_and_hashes(SPECIAL_USER_HASHES, HASHED_NAMES,
                                             users.names))

\* line 1211: the test of the list
UsersLoaded(users) ==
    IF users.none \/ users.names = <<>> THEN NoNames(users)
    ELSE NamesLoaded(set_special_names_and_hashes(SPECIAL_USER_HASHES, HASHED_NAMES,
                                                  users.names))

LoadTrollList ==
    /\ ppc = "main"
    /\ UsersLoaded(load_potential_troll_list(users_txt))
    /\ UNCHANGED <<settingVars, pc, self_connections, registryVars, bodyVars, layoutVars,
                   edges_out, second, saveVars, linkVars, folderVars, run, data, found,
                   parsed, written, returned, instance>>

CachePath == "cached_content/website_data.json"

\* lines 1114-1119: analyze_all_websites_in_folder goes on with data that is
\* not empty
DataReturned(d) ==
    /\ data' = d
    /\ returned' = Append(returned, d)
    /\ ppc' = IF d = <<>> THEN "end" ELSE "loaded"

\* lines 897-904: every file is parsed and the result saved, whatever it is
Prepared(ps) ==
    /\ DataReturned(ps.data_container)
    /\ HASHED_NAMES' = ps.hashed
    /\ parsed' = ps.parsed
    /\ cache_file' = [written |-> TRUE, data |-> ps.data_container]
    /\ written' = written \cup {CachePath}
    /\ log' = log \o ps.errors
              \o (IF ps.data_container = <<>> THEN <<"Failed to get any data">> ELSE <<>>)

\* the cache file overlooked: every file is parsed again (C11 fails with it)
CacheIgnored ==
    Prepared(PreparedFromScratch(SPECIAL_USER_HASHES, HASHED_NAMES, HtmlFiles(folder)))

\* lines 893-895: the cache file is there: its records are returned
Cached ==
    /\ DataReturned(cache_file.data)
    /\ log' = log \o (IF cache_file.data = <<>> THEN <<"Failed to get any data">> ELSE <<>>)
    /\ UNCHANGED <<HASHED_NAMES, parsed, cache_file, written>>

\* lines 1107-1111
NoHtmlFiles ==
    /\ ppc' = "end"
    /\ log' = Append(log, "No files with the .html extension found")
    /\ UNCHANGED <<data, returned, HASHED_NAMES, parsed, cache_file, written>>

\* lines 1107-1119, with get_website_data
GetWebsiteData ==
    /\ ppc = "analyze"
    /\ IF HtmlFiles(folder) = <<>> THEN NoHtmlFiles
       ELSE IF cache_file.written THEN Cached
       ELSE Prepared(PreparedFromScratch(SPECIAL_USER_HASHES, HASHED_NAMES,
                                         HtmlFiles(folder)))
    /\ UNCHANGED <<settingVars, pc, self_connections, registryVars, bodyVars, layoutVars,
                   edges_out, second, saveVars, linkVars, folder, users_txt, text_files,
                   run, SPECIAL_USER_HASHES, found, instance>>

\* line 1123: _save_website_data
SaveWebsiteData ==
    /\ ppc = "loaded"
    /\ text_files' = DictSet(DictSet(text_files, "website_links.txt", WebsiteLinksText(data)),
                             "websites.txt", WebsitesText(data))
    /\ written' = written \cup {"TextSummaries/website_links.txt",
                                "TextSummaries/websites.txt"}
    /\ ppc' = "saved"
    /\ UNCHANGED <<settingVars, pc, self_connections, registryVars, bodyVars, layoutVars,
                   edges_out, second, saveVars, linkVars, folder, users_txt, cache_file,
                   run, SPECIAL_USER_HASHES, HASHED_NAMES, data, found, parsed, log,
                   returned, instance>>

\* line 1125: get_links_and_comments
LinksFound(gs) ==
    /\ found' = [connections |-> gs.connections, troll_map |-> gs.troll_map]
    /\ log' = log \o gs.warnings

GetLinksAndComments ==
    /\ ppc = "saved"
    /\ LinksFound(get_links_and_comments(data))
    /\ ppc' = "found"
    /\ UNCHANGED <<settingVars, pc, self_connections, registryVars, bodyVars, layoutVars,
                   edges_out, second, saveVars, linkVars, folderVars, run,
                   SPECIAL_USER_HASHES, HASHED_NAMES, data, parsed, written, returned,
                   instance>>

\* lines 1134-1135: a GraphCreator is made and given the connections.  The
\* registry _node_codes is an attribute of the class, changed in place, and
\* is the same object for every instance; the counter is an attribute of the
\* class that an instance reads until its first own assignment (line 580)
NewGraphCreator(conns) ==
    /\ self_connections' = conns
    /\ pc' = "start"
    /\ _node_codes' = _node_codes
    /\ _current_node_num' = 1
    /\ node_map' = <<>>
    /\ url_map' = <<>>
    /\ connections' = <<>>
    /\ clusters' = <<>>
    /\ conn_num' = <<>>
    /\ ordered_nodes' = <<>>
    /\ layout' = NoLayout
    /\ edges_out' = <<>>
    /\ engine_i' = 1
    /\ attempted' = <<>>
    /\ instance' = instance + 1

\* line 1127 raises, or comments.txt is written
CommentsSaved(c) ==
    IF c.err
    THEN /\ ppc' = "traceback"
         /\ UNCHANGED <<text_files, written, pc, self_connections, registryVars, bodyVars,
                        layoutVars, edges_out, engine_i, attempted, instance>>
    ELSE /\ text_files' = DictSet(text_files, "comments.txt", c.text)
         /\ written' = written \cup {"TextSummaries/comments.txt"}
         /\ IF found.connections = <<>>
            THEN /\ ppc' = "end"
                 /\ UNCHANGED <<pc, self_connections, registryVars, bodyVars, layoutVars,
                                edges_out, engine_i, attempted, instance>>
            ELSE /\ ppc' = "graph"
                 /\ NewGraphCreator(found.connections)

\* lines 1127-1135
SaveComments ==
    /\ ppc = "found"
    /\ CommentsSaved(_save_comments(found.troll_map))
    /\ UNCHANGED <<settingVars, second, gv_file, svg_files, linkVars, folder, users_txt,
                   cache_file, run, SPECIAL_USER_HASHES, HASHED_NAMES, data, found,
                   parsed, log, returned>>

\* lines 1138-1139, after make_graph has returned
SaveUrlCounts ==
    /\ ppc = "graph"
    /\ pc = "done"
    /\ text_files' = DictSet(text_files, "links.txt", LinksText(self_connections))
    /\ written' = written \cup {"TextSummaries/links.txt"}
    /\ ppc' = "end"
    /\ UNCHANGED <<settingVars, pc, self_connections, registryVars, bodyVars, layoutVars,
                   edges_out, second, saveVars, linkVars, folder, users_txt, cache_file,
                   run, SPECIAL_USER_HASHES, HASHED_NAMES, data, found, parsed, log,
                   returned, instance>>

\* the run is over: the script returned, or an exception ended it
Finished ==
    \/ ppc \in {"end", "traceback"}
    \/ ppc = "graph" /\ pc = "error"

\* the script is started again in the same folder, where the pages and the
\* user list may have changed; the files of earlier runs are still there
StartProcess ==
    /\ Finished
    /\ run < MaxRuns
    /\ run' = run + 1
    /\ folder' \in Folders
    /\ users_txt' \in UserFiles
    /\ ppc' = "main"
    /\ SPECIAL_USER_HASHES' = {}
    /\ HASHED_NAMES' = <<>>
    /\ data' = <<>>
    /\ found' = NoFound
    /\ parsed' = <<>>
    /\ log' = <<>>
    /\ written' = {}
    /\ instance' = 0
    /\ pc' = "idle"
    /\ self_connections' = <<>>
    /\ _node_codes' = <<>>
    /\ _current_node_num' = 1
    /\ node_map' = <<>>
    /\ url_map' = <<>>
    /\ connections' = <<>>
    /\ clusters' = <<>>
    /\ conn_num' = <<>>
    /\ ordered_nodes' = <<>>
    /\ layout' = NoLayout
    /\ edges_out' = <<>>
    /\ engine_i' = 1
    /\ attempted' = <<>>
    /\ UNCHANGED <<settingVars, second, gv_file, svg_files, linkVars, cache_file,
                   text_files, returned>>

(***************************************************************************)
(* Two GraphCreator instances in one process                               *)
(***************************************************************************)

InitInstances ==
    /\ cluster_map = YoutubeFirst
    /\ MAX_NODES_IN_COLUMN = MaxColumn
    /\ MINIMIZE_EDGE_NUMBER = FALSE
    /\ GRAPH_ENGINES = <<"dot">>
    /\ self_connections \in EdgeLists(SourceLinks, {"foo.org/p", "x.com/blog"},
                                      {NoAuthor}, MaxEdges)
    /\ FreshGraphCreator
    /\ NoPipeline
    /\ NoLinkRun

\* make_graph of the first instance has returned or raised; the caller makes
\* a second instance and gives it its connections
SecondGraphCreator ==
    /\ instance = 1
    /\ pc \in {"done", "error"}
    /\ \E conns \in EdgeLists(SourceLinks, {"foo.org/p", "x.com/blog"}, {NoAuthor},
                              MaxEdges) :
          NewGraphCreator(conns)
    /\ UNCHANGED <<settingVars, second, gv_file, svg_files, linkVars, folderVars, runVars>>

NextInstances == Next \/ SecondGraphCreator

SpecInstances == InitInstances /\ [][NextInstances]_vars

(***************************************************************************)
(* get_links_and_comments on records read from the cache file              *)
(***************************************************************************)

\* a run that has loaded its data from the cache file and saved the lists
\* of websites (line 1123)
InitRecords ==
    /\ cluster_map = YoutubeFirst
    /\ MAX_NODES_IN_COLUMN = MaxColumn
    /\ MINIMIZE_EDGE_NUMBER = FALSE
    /\ GRAPH_ENGINES = <<"dot">>
    /\ self_connections = <<>>
    /\ NoGraphCreator
    /\ gv_file = NoFile
    /\ svg_files = {}
    /\ NoLinkRun
    /\ folder = <<Notes, VideoPage>>
    /\ users_txt = [written |-> TRUE, text |-> "Alice\n"]
    /\ data \in RecordLists
    /\ cache_file = [written |-> TRUE, data |-> data]
    /\ text_files = << [k |-> "website_links.txt", v |-> WebsiteLinksText(data)],
                       [k |-> "websites.txt", v |-> WebsitesText(data)] >>
    /\ run = 1
    /\ ppc = "saved"
    /\ SPECIAL_USER_HASHES = {DictGet(Md5Hex, "Alice")}
    /\ HASHED_NAMES = << [k |-> "Alice", v |-> DictGet(Md5Hex, "Alice")] >>
    /\ found = NoFound
    /\ parsed = <<>>
    /\ log = <<>>
    /\ written = {"TextSummaries/website_links.txt", "TextSummaries/websites.txt"}
    /\ returned = <<data>>
    /\ instance = 0

NextRecords == GetLinksAndComments

SpecRecords == InitRecords /\ [][NextRecords]_vars

NextPipeline ==
    \/ LoadTrollList
    \/ GetWebsiteData
    \/ SaveWebsiteData
    \/ GetLinksAndComments
    \/ SaveComments
    \/ Next
    \/ SaveUrlCounts
    \/ StartProcess

SpecPipeline == InitPipeline /\ [][NextPipeline]_vars

(***************************************************************************)
(* What the claims speak of                                                *)
(***************************************************************************)

\* the display labels of the endpoints of the edges in the order
\* _make_graph_body meets them (source, target, source, ...), and the IDs the
\* connections hold at the same positions
EndpointLabels ==
    [p \in 1..(2 * Len(self_connections)) |->
        _format_link_for_display(IF p % 2 = 1 THEN self_connections[(p + 1) \div 2].source
                                 ELSE self_connections[p \div 2].target)]

EndpointIds ==
    [p \in 1..(2 * Len(connections)) |->
        IF p % 2 = 1 THEN connections[(p + 1) \div 2][1] ELSE connections[p \div 2][2]]

FirstSeen(labels, p) == Min({q \in 1..p : labels[q] = labels[p]})

\* place_nodes_in_grid has returned a layout
LayoutReturned == layout.node_groups # <<>>

(***************************************************************************)
(* C1: within one GraphCreator run a display label registered before gets  *)
(* back the ID of its first registration, the first label registered gets  *)
(* ID 1, and a label first seen before another has the smaller ID.         *)
(***************************************************************************)
C1_StableIdsInFirstSeenOrder ==
    /\ Len(connections) >= 1 => EndpointIds[1] = 1
    /\ \A p, q \in 1..Len(EndpointIds) :
          /\ EndpointLabels[p] = EndpointLabels[q] => EndpointIds[p] = EndpointIds[q]
          /\ FirstSeen(EndpointLabels, p) < FirstSeen(EndpointLabels, q)
                => EndpointIds[p] < EndpointIds[q]

\* two edges from the same page: the page keeps ID 1, the links get 2 and 4
C1_RepeatedLabelRegistered ==
    /\ pc = "body"
    /\ Len(connections) = 2
    /\ connections[1][1] = 1 /\ connections[1][2] = 2
    /\ connections[2][1] = 1 /\ connections[2][2] = 4

(***************************************************************************)
(* C2: after _make_graph_body and reorder_nodes_by_clusters every node     *)
(* that is an endpoint of an edge is a member of exactly one bucket, and   *)
(* no bucket lists a node twice.                                           *)
(***************************************************************************)
BucketsOf(n) == {i \in 1..Len(clusters) : n \in Range(clusters[i].v)}

C2_ExactlyOneBucket ==
    pc = "ordered" =>
        /\ \A n \in Range(EndpointIds) : Cardinality(BucketsOf(n)) = 1
        /\ \A i \in 1..Len(clusters) :
              Cardinality(Range(clusters[i].v)) = Len(clusters[i].v)

(***************************************************************************)
(* C3: a node whose label contains any alias of a key 'name1|name2|...' is *)
(* in the bucket named name1, and no bucket is named after another alias.  *)
(***************************************************************************)
FirstAlias(label) == Split(label, "|")[1]

HasAliasOf(label, s) ==
    \E a \in Range(Split(label, "|")) : Contains(Replace(Lower(s), "\n", ""), a)

C3_BucketNamedAfterFirstAlias ==
    pc = "body" =>
        /\ \A p \in 1..Len(EndpointIds), i \in 1..Len(cluster_map) :
              HasAliasOf(cluster_map[i].k, EndpointLabels[p])
                 => /\ DictHas(clusters, FirstAlias(cluster_map[i].k))
                    /\ EndpointIds[p]
                          \in Range(DictGet(clusters, FirstAlias(cluster_map[i].k)))
        /\ \A b \in 1..Len(clusters) :
              clusters[b].k \in {"nongrouped"}
                 \cup {FirstAlias(cluster_map[i].k) : i \in 1..Len(cluster_map)}

(***************************************************************************)
(* C4: in the layout place_nodes_in_grid returns, every column but the     *)
(* last holds exactly MAX_NODES_IN_COLUMN nodes, the last one holds the    *)
(* remaining nodes and then blanks up to the height of the others, and     *)
(* every row has one entry per column (blanks are left out of the line).   *)
(***************************************************************************)
ColumnOf(c) ==
    SubSeq(layout.nodes, MAX_NODES_IN_COLUMN * (c - 1) + 1,
           IF c < Len(layout.node_groups) THEN MAX_NODES_IN_COLUMN * c
           ELSE Len(layout.nodes))

C4_ColumnsFilledAndPadded ==
    LayoutReturned =>
        /\ Len(layout.nodes) >= 1
        /\ \A c \in 1..Len(layout.node_groups) :
              /\ Len(ColumnOf(c)) >= 1
              /\ c < Len(layout.node_groups) => Len(ColumnOf(c)) = MAX_NODES_IN_COLUMN
              /\ Len(layout.node_groups[c]) = Len(layout.node_groups[1])
              /\ layout.node_groups[c]
                    = ColumnOf(c) \o [j \in 1..(Len(layout.node_groups[1]) - Len(ColumnOf(c)))
                                         |-> Blank]
        /\ Len(layout.graphviz_lines) = Len(layout.node_groups[1])
        /\ \A r \in 1..Len(layout.graphviz_lines) :
              Len(layout.graphviz_lines[r])
                 = Cardinality({c \in 1..Len(layout.node_groups) :
                                   layout.node_groups[c][r] # Blank})

\* three grid nodes in columns of two: the second column is padded
C4_LastColumnPadded ==
    /\ LayoutReturned
    /\ MAX_NODES_IN_COLUMN = 2
    /\ Len(layout.nodes) = 3
    /\ Len(layout.node_groups) = 2
    /\ layout.node_groups[2][2] = Blank

(***************************************************************************)
(* C5: with MINIMIZE_EDGE_NUMBER off _format_edges renders one edge per    *)
(* input edge, with it on one edge per distinct (source, destination,      *)
(* colour), and for every pair of nodes the multiplicities of the          *)
(* collapsed edges add up to the number of edges rendered one by one.      *)
(***************************************************************************)
\* the number of edges a rendered edge stands for, read back from its width
Multiplicity(e) == IF e.penwidth2 = 0 THEN 1 ELSE e.penwidth2 - 2 * BASE_EDGE_WIDTH

Between(rendered, a, b) ==
    {i \in 1..Len(rendered) : rendered[i].name1 = a /\ rendered[i].name2 = b}

RECURSIVE TotalMultiplicity(_, _)
TotalMultiplicity(rendered, I) ==
    IF I = {} THEN 0
    ELSE Multiplicity(rendered[Min(I)]) + TotalMultiplicity(rendered, I \ {Min(I)})

EdgesOneByOne == IF MINIMIZE_EDGE_NUMBER THEN _format_edges(connections, FALSE) ELSE edges_out

EdgesCollapsed == IF MINIMIZE_EDGE_NUMBER THEN edges_out ELSE _format_edges(connections, TRUE)

C6_LayoutRepeatable ==
    second.done => /\ second.ordered_nodes = ordered_nodes
                   /\ second.layout = layout

(***************************************************************************)
(* C7: _shorten_link is idempotent: canonicalising the normalised link of  *)
(* a result again returns the same normalised link and the same domain.    *)
(***************************************************************************)
C7_ShortenLinkIdempotent == lpc = "twice" => short2 = short1

(***************************************************************************)
(* C8: a node of the starting cluster is in the primary column iff it is   *)
(* the source of an edge, otherwise in the side column; with both columns  *)
(* non-empty the scaffold edges are exactly side column -> nexus ->        *)
(* primary column -> nexus chain -> every node of the first grid column.   *)
(***************************************************************************)
StartingNodes ==
    {ordered_nodes[i][1] : i \in {j \in 1..Len(ordered_nodes) :
                                     ordered_nodes[j][2] = STARTING_CLUSTER}}

IsSource(n) == \E i \in 1..Len(connections) : connections[i][1] = n

ScaffoldEdges(rows) ==
    {<<rows[i][2], rows[i][3]>> : i \in {j \in 1..Len(rows) : rows[j][1] = "edge"}}

Names(col) == {ToString(n) : n \in Range(col)}

NexusChain == <<"dummy">> \o [i \in 1..MainDummyNum |-> "dummy" \o ToString(i - 1)]

UnknownEdges ==
    {i \in 1..Len(self_connections) :
        self_connections[i].author
            \notin {NoAuthor} \cup Range(DictKeys(SPECIAL_USER_STYLING))}

C9_UnknownAttributionIsFatal ==
    UnknownEdges # {} =>
        /\ pc \in {"start", "error"}
        /\ Len(connections) < Min(UnknownEdges)
        /\ edges_out = <<>>
        /\ gv_file = NoFile

\* the third edge has the unknown hash: make_graph ends after two edges
C9_FailedOnThirdEdge ==
    /\ pc = "error"
    /\ UnknownEdges = {3}
    /\ Len(connections) = 2

(***************************************************************************)
(* C10: graph.gv is written before any engine is invoked, the engines are  *)
(* attempted in list order, and every engine of GRAPH_ENGINES is           *)
(* eventually attempted whatever happened to the engines before it.        *)
(***************************************************************************)
AttemptedInListOrder ==
    /\ Len(attempted) <= Len(GRAPH_ENGINES)
    /\ attempted = SubSeq(GRAPH_ENGINES, 1, Len(attempted))

C10_EveryEngineAttempted ==
    /\ [](attempted # <<>> => gv_file.written)
    /\ []AttemptedInListOrder
    /\ (gv_file.written ~> (attempted = GRAPH_ENGINES))

\* get_website_data is called in this step (the folder has a page)
CallsGetWebsiteData == ppc = "analyze" /\ ppc' # "analyze" /\ HtmlFiles(folder) # <<>>

(***************************************************************************)
(* C11: when the cache file exists, get_website_data returns its records,  *)
(* gives no file to the parser and opens no file for writing, whatever     *)
(* pages and user list the folder holds; the records are those every       *)
(* earlier run of the script in the folder got.                            *)
(***************************************************************************)
C11_CacheShortCircuitsParsing ==
    [][(CallsGetWebsiteData /\ cache_file.written) =>
           /\ data' = cache_file.data
           /\ parsed' = <<>>
           /\ cache_file' = cache_file
           /\ written' = written
           /\ \A i \in DOMAIN returned : data' = returned[i]]_vars

\* a second run got the records of the first although parsing the pages the
\* folder holds now, with the user list it holds now, gives other records
C11_StaleRecordsReturned ==
    /\ run = 2
    /\ ppc = "loaded"
    /\ Len(returned) = 2
    /\ parsed = <<>>
    /\ data = returned[1]
    /\ data # PreparedFromScratch(SPECIAL_USER_HASHES, <<>>, HtmlFiles(folder)).data_container

\* the pages of the folder, and those of them that have comment elements
PagesOfFolder == HtmlFiles(folder)

WellFormedPages == SelectSeq(PagesOfFolder, LAMBDA p : p.comments # <<>>)

(***************************************************************************)
(* C12: when get_website_data parses the pages, every page of the folder   *)
(* is given to the parser in input order, every page without comment       *)
(* elements is reported, and the records returned are the records that the *)
(* well-formed pages alone give, in input order.                           *)
(***************************************************************************)
C12_PagesWithoutCommentsAreSkipped ==
    [][(CallsGetWebsiteData /\ ~cache_file.written) =>
           /\ parsed' = [i \in 1..Len(PagesOfFolder) |-> PagesOfFolder[i].name]
           /\ \A i \in 1..Len(PagesOfFolder) :
                  PagesOfFolder[i].comments = <<>> =>
                      ("No comments found in " \o PagesOfFolder[i].name) \in Range(log')
           /\ Len(data') = Len(WellFormedPages)
           /\ \A i \in 1..Len(WellFormedPages) :
                  data'[i].link = get_title_and_link(WellFormedPages[i]).link
           /\ data' = PreparedFromScratch(SPECIAL_USER_HASHES, HASHED_NAMES,
                                          WellFormedPages).data_container]_vars

\* a page without comments came before a well-formed page, and the record of
\* the latter was returned
C12_RecordAfterBadPage ==
    /\ ppc = "loaded"
    /\ Len(PagesOfFolder) = 2
    /\ PagesOfFolder[1].comments = <<>>
    /\ PagesOfFolder[2].comments # <<>>
    /\ parsed = <<PagesOfFolder[1].name, PagesOfFolder[2].name>>
    /\ Len(data) = 1
    /\ data[1].troll_comments # <<>>

\* the folder lacks what a run needs: a users.txt with a name, or a page
NoInput ==
    \/ load_potential_troll_list(users_txt).none
    \/ load_potential_troll_list(users_txt).names = <<>>
    \/ PagesOfFolder = <<>>

(***************************************************************************)
(* C13: a run in a folder without users.txt, with a users.txt that holds   *)
(* no name, or without a page with the suffix .html ends before            *)
(* get_website_data is called: it opens no file for writing, and the cache *)
(* file, the text files, graph.gv and the SVG files stay as they were.     *)
(***************************************************************************)
C13_NoOutputWithoutInput ==
    [][(NoInput /\ run' = run) =>
           /\ written = {} /\ written' = {}
           /\ UNCHANGED <<cache_file, text_files, gv_file, svg_files>>
           /\ ppc' \in {"analyze", "end"}
           /\ pc' = "idle"]_vars

\* a run without input has ended in a folder that holds the files of an
\* earlier run
C13_EndedWithoutInput ==
    /\ run = 2
    /\ NoInput
    /\ ppc = "end"
    /\ log # <<>>
    /\ cache_file.written
    /\ text_files # <<>>
    /\ written = {}

\* every comment record the run holds: in the data returned, in the cache
\* file, and in what get_links_and_comments hands to the exporters
RecordsOf(website_data) ==
    UNION {Range(website_data[i].troll_comments) : i \in 1..Len(website_data)}

CommentRecords ==
    RecordsOf(data)
    \cup (IF cache_file.written THEN RecordsOf(cache_file.data) ELSE {})
    \cup UNION {Range(found.troll_map[i].v) : i \in 1..Len(found.troll_map)}

\* the user names that have the hash h
NamesWithHash(h) == {n \in Range(DictKeys(Md5Hex)) : DictGet(Md5Hex, n) = h}

FieldsOf(com_data) ==
    {com_data.author, com_data.ahash, com_data.comment_link, com_data.text}
    \cup Range(com_data.links)

(***************************************************************************)
(* C14: no field of a comment record (in the data, in the cache file or    *)
(* given to the exporters) holds the user name of the author of the        *)
(* comment: the record has the hash of the name and not the name.          *)
(***************************************************************************)
C14_NoRawUsernameInRecords ==
    \A r \in CommentRecords :
        \A n \in NamesWithHash(r.ahash) :
            \A f \in FieldsOf(r) : ~Contains(f, n)

\* the comments of a page by authors the filter lets through
IsSuspect(com) ==
    \/ DictGet(Md5Hex, Strip(com.author)) \in SPECIAL_USER_HASHES
    \/ DictHas(SPECIAL_USER_STYLING, DictGet(Md5Hex, Strip(com.author)))

SuspectComments(page) == SelectSeq(page.comments, IsSuspect)

\* the run has parsed the pages of the folder: data holds their records
ParsedInThisRun == parsed # <<>> /\ ppc \in {"loaded", "saved", "found", "graph", "end"}

(***************************************************************************)
(* C15: the comment records of a page that has comments are, in the order  *)
(* of the page, the comments whose author's hash is in SPECIAL_USER_HASHES *)
(* or is a key of SPECIAL_USER_STYLING, one record for each, and the hash  *)
(* of a record is the hash of the author of its comment.                   *)
(***************************************************************************)
C15_RecordsAreTheSuspectComments ==
    ParsedInThisRun =>
        /\ Len(data) = Len(WellFormedPages)
        /\ \A k \in 1..Len(data) :
              /\ Len(data[k].troll_comments) = Len(SuspectComments(WellFormedPages[k]))
              /\ \A j \in 1..Len(data[k].troll_comments) :
                    /\ data[k].troll_comments[j].comment_link =
                           CommentLink(SuspectComments(WellFormedPages[k])[j].href)
                    /\ data[k].troll_comments[j].ahash =
                           DictGet(Md5Hex, Strip(SuspectComments(WellFormedPages[k])[j].author))

\* a page gave a record for one of its comments and none for another, and a
\* record came from the user list, another from the styling table
C15_SomeCommentsFiltered ==
    /\ ParsedInThisRun
    /\ \E k \in 1..Len(data) :
          /\ data[k].troll_comments # <<>>
          /\ Len(data[k].troll_comments) < Len(WellFormedPages[k].comments)
    /\ \E r \in RecordsOf(data) : r.ahash \in SPECIAL_USER_HASHES
    /\ \E r \in RecordsOf(data) : DictHas(SPECIAL_USER_STYLING, r.ahash)

(***************************************************************************)
(* C16: in the list reorder_nodes_by_clusters returns, of two members of   *)
(* one cluster the one with more inbound edges comes first, and of two     *)
(* with equally many the one registered first (the smaller ID) comes       *)
(* first.                                                                  *)
(***************************************************************************)
C16_ByInboundCountThenFirstSeen ==
    \A i, j \in 1..Len(ordered_nodes) :
        (i < j /\ ordered_nodes[i][2] = ordered_nodes[j][2]) =>
            \/ conn_num[ordered_nodes[i][1]] > conn_num[ordered_nodes[j][1]]
            \/ /\ conn_num[ordered_nodes[i][1]] = conn_num[ordered_nodes[j][1]]
               /\ ordered_nodes[i][1] < ordered_nodes[j][1]

\* how often x is in a sequence
Occurrences(seq, x) == Cardinality({i \in 1..Len(seq) : seq[i] = x})

OrderedIds == [i \in 1..Len(ordered_nodes) |-> ordered_nodes[i][1]]

PlacedIds == layout.leftside_column \o layout.starting_column \o layout.nodes

(***************************************************************************)
(* C19: every node ID of node_map is once in the ordered node list, and in *)
(* a layout place_nodes_in_grid returned it is in exactly one place of the *)
(* side column, the primary column and the grid columns.                   *)
(***************************************************************************)
C19_EveryNodeOrderedAndPlacedOnce ==
    /\ ordered_nodes # <<>> =>
          \A n \in Range(DictKeys(node_map)) : Occurrences(OrderedIds, n) = 1
    /\ LayoutReturned =>
          \A n \in Range(DictKeys(node_map)) : Occurrences(PlacedIds, n) = 1

(***************************************************************************)
(* C20: with an edge list that is not empty, make_graph does not end in an *)
(* error once the nodes are ordered: place_nodes_in_grid returns a layout, *)
(* also when every node is in the starting cluster.                        *)
(***************************************************************************)
C20_LayoutForEveryEdgeList ==
    (self_connections # <<>> /\ ordered_nodes # <<>>) => pc # "error"

(***************************************************************************)
(* C17: a second GraphCreator made in the process starts with an empty     *)
(* registry and the counter at 1, and in the graph it makes two distinct   *)
(* labels never have the same node ID.                                     *)
(***************************************************************************)
C17_InstancesShareNoState ==
    instance = 2 =>
        /\ pc = "start" => (_node_codes = <<>> /\ _current_node_num = 1)
        /\ pc = "body" =>
              \A p, q \in 1..Len(EndpointIds) :
                  EndpointLabels[p] # EndpointLabels[q] => EndpointIds[p] # EndpointIds[q]

\* the record number i has the trimmed link of an earlier record; its
\* trimmed link has a path; its comment record is in what
\* get_links_and_comments returns
Repeats(i) ==
    \E j \in 1..(i - 1) : TrimmedLink(data[j].link) = TrimmedLink(data[i].link)

HasPath(i) == UrlPath(TrimmedLink(data[i].link)) # ""

Contributes(i) ==
    \E k \in 1..Len(found.troll_map) :
        data[i].troll_comments[1] \in Range(found.troll_map[k].v)

(***************************************************************************)
(* C18 as stated: a record whose trimmed link is the trimmed link of an    *)
(* earlier record gives no comment record and no edge, with or without a   *)
(* path in the link.                                                       *)
(***************************************************************************)
C18_EveryRepeatedLinkDropped ==
    ppc = "found" =>
        /\ \A i \in 1..Len(data) : Repeats(i) => ~Contributes(i)
        /\ Len(found.connections) <= Cardinality({i \in 1..Len(data) : ~Repeats(i)})

(***************************************************************************)
(* C18 amended: a record whose trimmed link is the trimmed link of an      *)
(* earlier record is dropped (no comment record, no edge) exactly when     *)
(* urlparse finds a path in the trimmed link; a repeated link without a    *)
(* path ("https://example.com") is kept, as every link seen first is.      *)
(***************************************************************************)
C18_RepeatedLinkWithPathDropped ==
    ppc = "found" =>
        /\ \A i \in 1..Len(data) : Contributes(i) <=> ~(Repeats(i) /\ HasPath(i))
        /\ Len(found.connections) =
              Cardinality({i \in 1..Len(data) : ~(Repeats(i) /\ HasPath(i))})

\* one record repeats a link with a path and is dropped,
\* another repeats a link without a path and is kept
C18_BareDomainKeptPathDropped ==
    /\ ppc = "found"
    /\ \E i, j \in 1..Len(data) :
          /\ Repeats(i) /\ HasPath(i) /\ ~Contributes(i)
          /\ Repeats(j) /\ ~HasPath(j) /\ Contributes(j)

\* the comment records get_links_and_comments hands to _save_comments and,
\* as attributions of the edges, to the graph
ExportedRecords ==
    UNION {Range(found.troll_map[i].v) : i \in 1..Len(found.troll_map)}

(***************************************************************************)
(* C21: the author hash of every comment record that reaches the exporters *)
(* is a key of SPECIAL_USER_STYLING, the author hash of every edge too,    *)
(* and _save_comments never ends the run with a KeyError.                  *)
(***************************************************************************)
C21_ExportedAuthorsAreStyled ==
    /\ \A r \in ExportedRecords : DictHas(SPECIAL_USER_STYLING, r.ahash)
    /\ \A i \in 1..Len(found.connections) :
          found.connections[i].author # NoAuthor
              => DictHas(SPECIAL_USER_STYLING, found.connections[i].author)
    /\ ppc # "traceback"

\* get_website_data gave no record to this run (lines 1114-1119)
FailedToGetData == "Failed to get any data" \in Range(log)

(***************************************************************************)
(* C22: the cache file, when it is there, holds at least one page record,  *)
(* and a run in a folder that has a page with comments is never left       *)
(* without data: it parses its pages when no earlier run got a record.     *)
(***************************************************************************)
C22_NoCacheWithoutRecords ==
    /\ cache_file.written => cache_file.data # <<>>
    /\ FailedToGetData => WellFormedPages = <<>>

====
